---------------------------- MODULE Spec2Model ----------------------------
(***************************************************************************)
(* A model of the progression and reward state machine of the hunter       *)
(* fitness tracker (src/backend/server.py): the user documents, the daily  *)
(* quest documents and the request handlers that change them.              *)
(*                                                                         *)
(* A handler is modelled as an operator over two user documents: `user',   *)
(* the snapshot get_current_user loaded before the handler ran, and `doc', *)
(* the document the database holds when the handler's updates are applied. *)
(* What the code computes from its `user' argument is computed from the    *)
(* snapshot; $inc, $addToSet, $push and $pull act on the stored document.  *)
(* In the sequential specification Spec the two are the same document.     *)
(***************************************************************************)
EXTENDS Integers, Sequences, FiniteSets, TLC

VARIABLES
  users,         \* db.users: user id -> user document
  daily_quests,  \* db.daily_quests: the documents, in insertion order
  guilds,        \* db.guilds: the documents, in insertion order
  today,         \* the current UTC calendar date, as a day number
  last,          \* the last request served and its response
  served,        \* how many state-changing requests have succeeded so far
  loop,          \* the level-up loop of complete_quest, run step by step
  inflight       \* requests that have loaded their snapshot and not yet written

vars == <<users, daily_quests, guilds, today, last, served, loop, inflight>>

-----------------------------------------------------------------------------
(* Bounds of the model.                                                    *)

MaxRequests == 3
MaxDay == 4
MaxLevel == 100

-----------------------------------------------------------------------------
(* Python's None, for the string-valued and for the date-valued fields.    *)

None == "None"
NoDate == -1

-----------------------------------------------------------------------------
(* The catalog: the module-level tables of server.py.                      *)

\* The four exercise templates of the daily training.
BASE_DAILY_EXERCISES ==
  << [name |-> "Flexiones", base_reps |-> 10, max_reps |-> 100, unit |-> "repeticiones", stat |-> "strength"],
     [name |-> "Sentadillas", base_reps |-> 10, max_reps |-> 100, unit |-> "repeticiones", stat |-> "endurance"],
     [name |-> "Abdominales", base_reps |-> 10, max_reps |-> 100, unit |-> "repeticiones", stat |-> "vitality"],
     [name |-> "Correr", base_reps |-> 1, max_reps |-> 10, unit |-> "km", stat |-> "agility"] >>

\* The dungeons. multiplier10 is the multiplier in tenths (1.2 is 12).
SPECIAL_DUNGEONS ==
  << [id |-> "dungeon_prueba_novato", min_level |-> 1, multiplier10 |-> 10, difficulty |-> "E", exp |-> 30, gold |-> 20],
     [id |-> "dungeon_cueva_goblins", min_level |-> 3, multiplier10 |-> 12, difficulty |-> "E", exp |-> 50, gold |-> 30],
     [id |-> "dungeon_bosque_oscuro", min_level |-> 5, multiplier10 |-> 13, difficulty |-> "E", exp |-> 70, gold |-> 40],
     [id |-> "dungeon_mina_abandonada", min_level |-> 10, multiplier10 |-> 15, difficulty |-> "D", exp |-> 100, gold |-> 60],
     [id |-> "dungeon_templo_serpiente", min_level |-> 12, multiplier10 |-> 16, difficulty |-> "D", exp |-> 130, gold |-> 80],
     [id |-> "dungeon_pantano_veneno", min_level |-> 15, multiplier10 |-> 17, difficulty |-> "D", exp |-> 160, gold |-> 100],
     [id |-> "dungeon_ruinas_antiguas", min_level |-> 18, multiplier10 |-> 18, difficulty |-> "D", exp |-> 200, gold |-> 120],
     [id |-> "dungeon_fortaleza_hielo", min_level |-> 25, multiplier10 |-> 20, difficulty |-> "C", exp |-> 300, gold |-> 180],
     [id |-> "dungeon_volcan_activo", min_level |-> 28, multiplier10 |-> 22, difficulty |-> "C", exp |-> 380, gold |-> 220],
     [id |-> "dungeon_cementerio_maldito", min_level |-> 32, multiplier10 |-> 24, difficulty |-> "C", exp |-> 450, gold |-> 280],
     [id |-> "dungeon_laboratorio_demonios", min_level |-> 36, multiplier10 |-> 26, difficulty |-> "C", exp |-> 550, gold |-> 350],
     [id |-> "dungeon_castillo_vampiro", min_level |-> 40, multiplier10 |-> 30, difficulty |-> "B", exp |-> 700, gold |-> 450],
     [id |-> "dungeon_abismo_oscuridad", min_level |-> 44, multiplier10 |-> 33, difficulty |-> "B", exp |-> 900, gold |-> 550],
     [id |-> "dungeon_torre_demonio", min_level |-> 48, multiplier10 |-> 36, difficulty |-> "B", exp |-> 1100, gold |-> 700],
     [id |-> "dungeon_dimension_caos", min_level |-> 52, multiplier10 |-> 38, difficulty |-> "B", exp |-> 1300, gold |-> 850],
     [id |-> "dungeon_palacio_reyes", min_level |-> 60, multiplier10 |-> 40, difficulty |-> "A", exp |-> 1800, gold |-> 1100],
     [id |-> "dungeon_templo_gigantes", min_level |-> 65, multiplier10 |-> 45, difficulty |-> "A", exp |-> 2200, gold |-> 1400],
     [id |-> "dungeon_santuario_dragon", min_level |-> 70, multiplier10 |-> 50, difficulty |-> "A", exp |-> 2800, gold |-> 1800],
     [id |-> "dungeon_trono_sombras", min_level |-> 75, multiplier10 |-> 55, difficulty |-> "A", exp |-> 3500, gold |-> 2200],
     [id |-> "dungeon_puerta_infierno", min_level |-> 80, multiplier10 |-> 60, difficulty |-> "S", exp |-> 5000, gold |-> 3000],
     [id |-> "dungeon_reino_demonios", min_level |-> 85, multiplier10 |-> 70, difficulty |-> "S", exp |-> 7000, gold |-> 4500],
     [id |-> "dungeon_tumba_monarcas", min_level |-> 90, multiplier10 |-> 80, difficulty |-> "S", exp |-> 10000, gold |-> 6000],
     [id |-> "dungeon_vacio_absoluto", min_level |-> 95, multiplier10 |-> 100, difficulty |-> "S", exp |-> 15000, gold |-> 10000] >>

\* The special missions. shadow is "None" where the mission grants none; a
\* requirement holds its numeric value in value and its rank letter in rank.
SPECIAL_MISSIONS ==
  << [id |-> "mission_despertar", min_level |-> 1, requirement |-> [type |-> "streak", value |-> 3, rank |-> ""], exp |-> 200, gold |-> 100, shadow |-> "None"],
     [id |-> "mission_primer_paso", min_level |-> 1, requirement |-> [type |-> "level", value |-> 5, rank |-> ""], exp |-> 150, gold |-> 80, shadow |-> "None"],
     [id |-> "mission_resistencia_basica", min_level |-> 5, requirement |-> [type |-> "dungeon_rank", value |-> 0, rank |-> "E"], exp |-> 180, gold |-> 90, shadow |-> "None"],
     [id |-> "mission_cazador_real", min_level |-> 10, requirement |-> [type |-> "rank", value |-> 0, rank |-> "D"], exp |-> 400, gold |-> 250, shadow |-> "shadow_goblin"],
     [id |-> "mission_semana_hierro", min_level |-> 10, requirement |-> [type |-> "streak", value |-> 7, rank |-> ""], exp |-> 600, gold |-> 350, shadow |-> "None"],
     [id |-> "mission_dominador_d", min_level |-> 15, requirement |-> [type |-> "dungeon_count", value |-> 5, rank |-> "D"], exp |-> 800, gold |-> 500, shadow |-> "None"],
     [id |-> "mission_fortaleza_mental", min_level |-> 20, requirement |-> [type |-> "no_fail_streak", value |-> 10, rank |-> ""], exp |-> 1000, gold |-> 600, shadow |-> "shadow_knight"],
     [id |-> "mission_ascenso_c", min_level |-> 25, requirement |-> [type |-> "rank", value |-> 0, rank |-> "C"], exp |-> 1500, gold |-> 900, shadow |-> "shadow_mage"],
     [id |-> "mission_mes_acero", min_level |-> 25, requirement |-> [type |-> "streak", value |-> 30, rank |-> ""], exp |-> 3000, gold |-> 1500, shadow |-> "shadow_tank"],
     [id |-> "mission_conquistador_c", min_level |-> 30, requirement |-> [type |-> "dungeon_count", value |-> 10, rank |-> "C"], exp |-> 2500, gold |-> 1200, shadow |-> "None"],
     [id |-> "mission_mil_repeticiones", min_level |-> 35, requirement |-> [type |-> "total_reps", value |-> 1000, rank |-> ""], exp |-> 2000, gold |-> 1000, shadow |-> "None"],
     [id |-> "mission_elite_b", min_level |-> 40, requirement |-> [type |-> "rank", value |-> 0, rank |-> "B"], exp |-> 4000, gold |-> 2500, shadow |-> "shadow_assassin"],
     [id |-> "mission_leyenda_100", min_level |-> 40, requirement |-> [type |-> "streak", value |-> 100, rank |-> ""], exp |-> 10000, gold |-> 5000, shadow |-> "shadow_general"],
     [id |-> "mission_sung_jinwoo", min_level |-> 50, requirement |-> [type |-> "level", value |-> 50, rank |-> ""], exp |-> 5000, gold |-> 3000, shadow |-> "shadow_beru"],
     [id |-> "mission_destructor_b", min_level |-> 50, requirement |-> [type |-> "dungeon_count", value |-> 15, rank |-> "B"], exp |-> 6000, gold |-> 3500, shadow |-> "None"],
     [id |-> "mission_rango_a", min_level |-> 60, requirement |-> [type |-> "rank", value |-> 0, rank |-> "A"], exp |-> 8000, gold |-> 5000, shadow |-> "shadow_dragon"],
     [id |-> "mission_aniquilador_a", min_level |-> 70, requirement |-> [type |-> "dungeon_count", value |-> 20, rank |-> "A"], exp |-> 12000, gold |-> 7000, shadow |-> "shadow_demon_lord"],
     [id |-> "mission_10k_reps", min_level |-> 60, requirement |-> [type |-> "total_reps", value |-> 10000, rank |-> ""], exp |-> 8000, gold |-> 4000, shadow |-> "None"],
     [id |-> "mission_rango_s", min_level |-> 80, requirement |-> [type |-> "rank", value |-> 0, rank |-> "S"], exp |-> 20000, gold |-> 12000, shadow |-> "shadow_monarch"],
     [id |-> "mission_aniquilador_s", min_level |-> 85, requirement |-> [type |-> "dungeon_count", value |-> 10, rank |-> "S"], exp |-> 30000, gold |-> 20000, shadow |-> "shadow_sovereign"],
     [id |-> "mission_ano_acero", min_level |-> 80, requirement |-> [type |-> "streak", value |-> 365, rank |-> ""], exp |-> 50000, gold |-> 30000, shadow |-> "shadow_ashborn"] >>

\* The bosses.
WEEKLY_BOSSES ==
  << [id |-> "boss_igris", min_level |-> 20, difficulty |-> "C", multiplier10 |-> 40, exp |-> 2000, gold |-> 1200, shadow |-> "shadow_igris"],
     [id |-> "boss_tusk", min_level |-> 30, difficulty |-> "B", multiplier10 |-> 50, exp |-> 4000, gold |-> 2500, shadow |-> "shadow_tusk"],
     [id |-> "boss_baran", min_level |-> 50, difficulty |-> "A", multiplier10 |-> 60, exp |-> 8000, gold |-> 5000, shadow |-> "shadow_baran"],
     [id |-> "boss_ant_king", min_level |-> 60, difficulty |-> "A", multiplier10 |-> 70, exp |-> 12000, gold |-> 7500, shadow |-> "shadow_beru"],
     [id |-> "boss_legia", min_level |-> 75, difficulty |-> "S", multiplier10 |-> 80, exp |-> 20000, gold |-> 12000, shadow |-> "shadow_legia"],
     [id |-> "boss_querehsha", min_level |-> 85, difficulty |-> "S", multiplier10 |-> 90, exp |-> 30000, gold |-> 18000, shadow |-> "shadow_querehsha"],
     [id |-> "boss_antares", min_level |-> 95, difficulty |-> "S", multiplier10 |-> 120, exp |-> 50000, gold |-> 30000, shadow |-> "shadow_antares"] >>

\* The collectible shadows, in the order of the table.
SHADOWS ==
  << [id |-> "shadow_goblin", rarity |-> "common"],
     [id |-> "shadow_knight", rarity |-> "uncommon"],
     [id |-> "shadow_mage", rarity |-> "uncommon"],
     [id |-> "shadow_tank", rarity |-> "rare"],
     [id |-> "shadow_assassin", rarity |-> "rare"],
     [id |-> "shadow_general", rarity |-> "epic"],
     [id |-> "shadow_igris", rarity |-> "epic"],
     [id |-> "shadow_tusk", rarity |-> "epic"],
     [id |-> "shadow_beru", rarity |-> "legendary"],
     [id |-> "shadow_dragon", rarity |-> "legendary"],
     [id |-> "shadow_baran", rarity |-> "legendary"],
     [id |-> "shadow_demon_lord", rarity |-> "legendary"],
     [id |-> "shadow_monarch", rarity |-> "mythic"],
     [id |-> "shadow_legia", rarity |-> "mythic"],
     [id |-> "shadow_querehsha", rarity |-> "mythic"],
     [id |-> "shadow_sovereign", rarity |-> "mythic"],
     [id |-> "shadow_ashborn", rarity |-> "divine"],
     [id |-> "shadow_antares", rarity |-> "divine"] >>

\* The punishment templates.
PUNISHMENT_QUESTS ==
  << [name |-> "Castigo: Resistencia Extrema", exercises |-> << [name |-> "Burpees", reps |-> 50, unit |-> "repeticiones"] >>, exp |-> 30],
     [name |-> "Castigo: Fuerza Mental", exercises |-> << [name |-> "Plancha", reps |-> 5, unit |-> "minutos"] >>, exp |-> 40],
     [name |-> "Castigo: Velocidad", exercises |-> << [name |-> "Sprint", reps |-> 10, unit |-> "sprints de 100m"] >>, exp |-> 35],
     [name |-> "Castigo: Core de Acero", exercises |-> << [name |-> "Plancha lateral", reps |-> 3, unit |-> "minutos por lado"] >>, exp |-> 45],
     [name |-> "Castigo: Piernas de Hierro", exercises |-> << [name |-> "Sentadillas con salto", reps |-> 100, unit |-> "repeticiones"] >>, exp |-> 50] >>

\* The shop. effect.keys are the keys the item's effect dictionary holds.
SHOP_ITEMS ==
  << [id |-> "potion_exp_1", price |-> 150, type |-> "consumable", effect |-> [keys |-> {"exp"}, exp |-> 50, gold |-> 0, streak_shield |-> 0, title |-> "", stat |-> "", value |-> 0]],
     [id |-> "potion_exp_2", price |-> 500, type |-> "consumable", effect |-> [keys |-> {"exp"}, exp |-> 200, gold |-> 0, streak_shield |-> 0, title |-> "", stat |-> "", value |-> 0]],
     [id |-> "potion_exp_3", price |-> 2000, type |-> "consumable", effect |-> [keys |-> {"exp"}, exp |-> 1000, gold |-> 0, streak_shield |-> 0, title |-> "", stat |-> "", value |-> 0]],
     [id |-> "title_shadow", price |-> 10000, type |-> "title", effect |-> [keys |-> {"title"}, exp |-> 0, gold |-> 0, streak_shield |-> 0, title |-> "Monarca de las Sombras", stat |-> "", value |-> 0]],
     [id |-> "title_hunter", price |-> 2000, type |-> "title", effect |-> [keys |-> {"title"}, exp |-> 0, gold |-> 0, streak_shield |-> 0, title |-> "Cazador Elite", stat |-> "", value |-> 0]],
     [id |-> "title_demon_slayer", price |-> 5000, type |-> "title", effect |-> [keys |-> {"title"}, exp |-> 0, gold |-> 0, streak_shield |-> 0, title |-> "Exterminador de Demonios", stat |-> "", value |-> 0]],
     [id |-> "title_sovereign", price |-> 25000, type |-> "title", effect |-> [keys |-> {"title"}, exp |-> 0, gold |-> 0, streak_shield |-> 0, title |-> "Soberano", stat |-> "", value |-> 0]],
     [id |-> "stat_str", price |-> 800, type |-> "stat_boost", effect |-> [keys |-> {"stat", "value"}, exp |-> 0, gold |-> 0, streak_shield |-> 0, title |-> "", stat |-> "strength", value |-> 3]],
     [id |-> "stat_end", price |-> 800, type |-> "stat_boost", effect |-> [keys |-> {"stat", "value"}, exp |-> 0, gold |-> 0, streak_shield |-> 0, title |-> "", stat |-> "endurance", value |-> 3]],
     [id |-> "stat_agi", price |-> 800, type |-> "stat_boost", effect |-> [keys |-> {"stat", "value"}, exp |-> 0, gold |-> 0, streak_shield |-> 0, title |-> "", stat |-> "agility", value |-> 3]],
     [id |-> "stat_vit", price |-> 800, type |-> "stat_boost", effect |-> [keys |-> {"stat", "value"}, exp |-> 0, gold |-> 0, streak_shield |-> 0, title |-> "", stat |-> "vitality", value |-> 3]],
     [id |-> "streak_protect", price |-> 1500, type |-> "consumable", effect |-> [keys |-> {"streak_shield"}, exp |-> 0, gold |-> 0, streak_shield |-> 1, title |-> "", stat |-> "", value |-> 0]] >>

\* The achievements.
ACHIEVEMENTS ==
  << [id |-> "first_quest", reward_gold |-> 50, category |-> "quests"],
     [id |-> "quests_10", reward_gold |-> 150, category |-> "quests"],
     [id |-> "quests_50", reward_gold |-> 500, category |-> "quests"],
     [id |-> "quests_100", reward_gold |-> 1000, category |-> "quests"],
     [id |-> "quests_500", reward_gold |-> 5000, category |-> "quests"],
     [id |-> "quests_1000", reward_gold |-> 15000, category |-> "quests"],
     [id |-> "level_10", reward_gold |-> 200, category |-> "level"],
     [id |-> "level_25", reward_gold |-> 500, category |-> "level"],
     [id |-> "level_40", reward_gold |-> 1500, category |-> "level"],
     [id |-> "level_50", reward_gold |-> 3000, category |-> "level"],
     [id |-> "level_60", reward_gold |-> 5000, category |-> "level"],
     [id |-> "level_80", reward_gold |-> 10000, category |-> "level"],
     [id |-> "level_100", reward_gold |-> 25000, category |-> "level"],
     [id |-> "streak_3", reward_gold |-> 100, category |-> "streak"],
     [id |-> "streak_7", reward_gold |-> 300, category |-> "streak"],
     [id |-> "streak_14", reward_gold |-> 600, category |-> "streak"],
     [id |-> "streak_30", reward_gold |-> 1500, category |-> "streak"],
     [id |-> "streak_60", reward_gold |-> 3000, category |-> "streak"],
     [id |-> "streak_100", reward_gold |-> 5000, category |-> "streak"],
     [id |-> "streak_365", reward_gold |-> 30000, category |-> "streak"],
     [id |-> "dungeon_first", reward_gold |-> 100, category |-> "dungeon"],
     [id |-> "dungeon_e_5", reward_gold |-> 200, category |-> "dungeon"],
     [id |-> "dungeon_d_5", reward_gold |-> 400, category |-> "dungeon"],
     [id |-> "dungeon_c_5", reward_gold |-> 800, category |-> "dungeon"],
     [id |-> "dungeon_b_5", reward_gold |-> 1500, category |-> "dungeon"],
     [id |-> "dungeon_a_5", reward_gold |-> 3000, category |-> "dungeon"],
     [id |-> "dungeon_s", reward_gold |-> 5000, category |-> "dungeon"],
     [id |-> "dungeon_s_10", reward_gold |-> 15000, category |-> "dungeon"],
     [id |-> "boss_first", reward_gold |-> 500, category |-> "boss"],
     [id |-> "boss_igris", reward_gold |-> 1000, category |-> "boss"],
     [id |-> "boss_beru", reward_gold |-> 5000, category |-> "boss"],
     [id |-> "boss_antares", reward_gold |-> 25000, category |-> "boss"],
     [id |-> "boss_all", reward_gold |-> 50000, category |-> "boss"],
     [id |-> "shadow_first", reward_gold |-> 200, category |-> "shadow"],
     [id |-> "shadow_5", reward_gold |-> 800, category |-> "shadow"],
     [id |-> "shadow_10", reward_gold |-> 2000, category |-> "shadow"],
     [id |-> "shadow_legendary", reward_gold |-> 3000, category |-> "shadow"],
     [id |-> "shadow_mythic", reward_gold |-> 8000, category |-> "shadow"],
     [id |-> "shadow_divine", reward_gold |-> 20000, category |-> "shadow"],
     [id |-> "guild_join", reward_gold |-> 100, category |-> "guild"],
     [id |-> "guild_create", reward_gold |-> 300, category |-> "guild"],
     [id |-> "stats_50", reward_gold |-> 500, category |-> "stats"],
     [id |-> "stats_100", reward_gold |-> 2000, category |-> "stats"],
     [id |-> "stats_all_50", reward_gold |-> 3000, category |-> "stats"],
     [id |-> "reps_1000", reward_gold |-> 300, category |-> "reps"],
     [id |-> "reps_10000", reward_gold |-> 1500, category |-> "reps"],
     [id |-> "reps_100000", reward_gold |-> 10000, category |-> "reps"] >>

-----------------------------------------------------------------------------
(* Helpers: Python list and string operations, MongoDB update operators.   *)

Range(s) == { s[i] : i \in DOMAIN s }

\* x in list
In(x, s) == x \in Range(s)

\* str.startswith
startswith(s, prefix) ==
  /\ Len(s) >= Len(prefix)
  /\ SubSeq(s, 1, Len(prefix)) = prefix

\* next((e for e in table if e["id"] == id), None): the matching entries, first first
Entries(table, id) == SelectSeq(table, LAMBDA e : e.id = id)

\* $addToSet on a list field
AddToSet(s, x) == IF In(x, s) THEN s ELSE Append(s, x)

\* max(a, b)
Max(a, b) == IF a >= b THEN a ELSE b

\* str(uuid.uuid4()): an id no stored document has yet; the n-th one made
Uuid(kind, n) == kind \o "-" \o ToString(n)

-----------------------------------------------------------------------------
(* Progression engine.                                                     *)

\* calculate_rank with rank D starting one level late.
calculate_rank_late(level) ==
  IF level >= 80 THEN "S"
  ELSE IF level >= 60 THEN "A"
  ELSE IF level >= 40 THEN "B"
  ELSE IF level >= 25 THEN "C"
  ELSE IF level > 10 THEN "D"
  ELSE "E"

\* calculate_rank
calculate_rank(level) ==
  IF level >= 80 THEN "S"
  ELSE IF level >= 60 THEN "A"
  ELSE IF level >= 40 THEN "B"
  ELSE IF level >= 25 THEN "C"
  ELSE IF level >= 10 THEN "D"
  ELSE "E"

\* int(150 * (1.8 ** (level - 1))) for level 1..29, the levels whose threshold
\* fits a 32-bit integer.  The double-precision product truncates to the exact
\* floor(150 * 9^(level-1) / 5^(level-1)) at each of these levels.
ExpNeededTable ==
  << 150, 270, 486, 874, 1574, 2834, 5101, 9183, 16529, 29753,
     53557, 96402, 173524, 312344, 562220, 1011996, 1821592, 3278867,
     5901961, 10623530, 19122354, 34420237, 61956428, 111521570,
     200738826, 361329888, 650393798, 1170708837, 2107275907 >>

\* The threshold computed level by level, truncating at each level.
calculate_exp_needed_stepwise(level) ==
  IF level = 1 THEN 150 ELSE (ExpNeededTable[level - 1] \div 5) * 9

calculate_exp_needed(level) == ExpNeededTable[level]

\* get_training_reps with the progress taken over 50 levels.
get_training_reps_by_50(level, base_reps, max_reps) ==
  IF level >= 50 THEN max_reps
  ELSE base_reps + ((max_reps - base_reps) * (level - 1)) \div 50

\* get_training_reps: int(base + (max - base) * ((level - 1) / 49)) below level 50
get_training_reps(level, base_reps, max_reps) ==
  IF level >= 50 THEN max_reps
  ELSE base_reps + ((max_reps - base_reps) * (level - 1)) \div 49

\* The loop's condition with a strict comparison.
LoopCondStrict(l) == l.new_exp > l.exp_needed

\* The level-up loop of complete_quest, on the record of its local variables.
LoopCond(l) == l.new_exp >= l.exp_needed

\* The loop's body without the recomputation of exp_needed.
LoopBodyStaleNeed(l) ==
  [ new_exp |-> l.new_exp - l.exp_needed,
    new_level |-> l.new_level + 1,
    stat_points_gained |-> l.stat_points_gained + 3,
    exp_needed |-> l.exp_needed ]

\* The loop's body.
LoopBody(l) ==
  [ new_exp |-> l.new_exp - l.exp_needed,
    new_level |-> l.new_level + 1,
    stat_points_gained |-> l.stat_points_gained + 3,
    exp_needed |-> calculate_exp_needed(l.new_level + 1) ]

LoopEntry(experience, level, exp_reward) ==
  [ new_exp |-> experience + exp_reward,
    new_level |-> level,
    stat_points_gained |-> 0,
    exp_needed |-> calculate_exp_needed(level) ]

RECURSIVE LevelUp(_)
LevelUp(l) == IF LoopCond(l) THEN LevelUp(LoopBody(l)) ELSE l

-----------------------------------------------------------------------------
(* Registration.                                                           *)

\* The user document register inserts.
NewUser(user_id, email, hunter_name) ==
  [ id |-> user_id,
    email |-> email,
    hunter_name |-> hunter_name,
    level |-> 1,
    experience |-> 0,
    rank |-> "E",
    gold |-> 100,
    title |-> "Novato",
    stats |-> [strength |-> 10, endurance |-> 10, agility |-> 10, vitality |-> 10],
    stat_points |-> 0,
    guild_id |-> None,
    achievements |-> <<>>,
    quests_completed |-> 0,
    punishment_quests |-> <<>>,
    shadows |-> <<>>,
    streak |-> 0,
    best_streak |-> 0,
    last_quest_date |-> NoDate,
    total_reps |-> 0,
    dungeons_completed |-> [E |-> 0, D |-> 0, C |-> 0, B |-> 0, A |-> 0, S |-> 0],
    bosses_defeated |-> <<>>,
    special_missions_completed |-> <<>>,
    streak_shields |-> 0,
    training_start_time |-> NoDate ]

UserIds == DOMAIN users

\* register: 400 when the email or the hunter name is taken
register(email, hunter_name) ==
  IF \E u \in UserIds : users[u].email = email THEN [status |-> 400, detail |-> "email"]
  ELSE IF \E u \in UserIds : users[u].hunter_name = hunter_name
    THEN [status |-> 400, detail |-> "hunter_name"]
  ELSE [status |-> 200, detail |-> "ok",
        user |-> NewUser(Uuid("user", Cardinality(UserIds) + 1), email, hunter_name)]

-----------------------------------------------------------------------------
(* Daily quests.                                                           *)

\* The exercises of a quest for a hunter of this level: every template at
\* int(get_training_reps(...) * multiplier) repetitions.
ScaledExercises(level, multiplier10) ==
  [ i \in DOMAIN BASE_DAILY_EXERCISES |->
      LET ex == BASE_DAILY_EXERCISES[i] IN
      [ name |-> ex.name,
        reps |-> (get_training_reps(level, ex.base_reps, ex.max_reps) * multiplier10) \div 10,
        unit |-> ex.unit,
        stat |-> ex.stat ] ]

\* The document with the rewards of 50 + 2 * level and 20 + level.
NewDailyOldRewards(quest_uuid, user, now) ==
  [ id |-> quest_uuid,
    user_id |-> user.id,
    date |-> now,
    exercises |-> ScaledExercises(user.level, 10),
    exp_reward |-> 50 + (user.level * 2),
    gold_reward |-> 20 + user.level,
    difficulty |-> calculate_rank(user.level),
    is_completed |-> FALSE ]

\* The document get_daily_quests builds for a user that has none today.
NewDaily(quest_uuid, user, now) ==
  [ id |-> quest_uuid,
    user_id |-> user.id,
    date |-> now,
    exercises |-> ScaledExercises(user.level, 10),
    exp_reward |-> 25 + (user.level * 2),
    gold_reward |-> 10 + user.level,
    difficulty |-> calculate_rank(user.level),
    is_completed |-> FALSE ]

\* The response's view of a stored daily quest: the document without user_id.
DailyView(d) == [ k \in (DOMAIN d) \ {"user_id"} |-> d[k] ]

\* get_daily_quests storing a regenerated quest over today's stored one.
get_daily_quests_regenerates(user, dailies, now) ==
  LET hits == { i \in DOMAIN dailies : dailies[i].user_id = user.id /\ dailies[i].date = now } IN
  IF hits # {}
    THEN LET first == CHOOSE i \in hits : \A j \in hits : i <= j
             quest == NewDaily(dailies[first].id, user, now)
         IN [status |-> 200, created |-> FALSE, quest |-> DailyView(quest),
             dailies |-> [dailies EXCEPT ![first] = quest]]
    ELSE LET quest == NewDaily(Uuid("daily", Len(dailies) + 1), user, now) IN
         [status |-> 200, created |-> TRUE, quest |-> DailyView(quest),
          dailies |-> Append(dailies, quest)]

\* get_daily_quests without the lookup of today's stored quest.
get_daily_quests_always_new(user, dailies, now) ==
  LET quest == NewDaily(Uuid("daily", Len(dailies) + 1), user, now) IN
  [status |-> 200, created |-> TRUE, quest |-> DailyView(quest),
   dailies |-> Append(dailies, quest)]

\* get_daily_quests: today's stored quest of the user, or a new one, stored
get_daily_quests(user, dailies, now) ==
  LET existing == SelectSeq(dailies, LAMBDA d : d.user_id = user.id /\ d.date = now) IN
  IF existing # <<>>
    THEN [status |-> 200, created |-> FALSE, quest |-> DailyView(existing[1]),
          dailies |-> dailies]
    ELSE LET quest == NewDaily(Uuid("daily", Len(dailies) + 1), user, now) IN
         [status |-> 200, created |-> TRUE, quest |-> DailyView(quest),
          dailies |-> Append(dailies, quest)]

\* db.daily_quests.update_one({"id": quest_id}, {"$set": {"is_completed": True}})
MarkCompleted(dailies, quest_id) ==
  LET hits == { i \in DOMAIN dailies : dailies[i].id = quest_id } IN
  IF hits = {} THEN dailies
  ELSE LET first == CHOOSE i \in hits : \A j \in hits : i <= j IN
       [dailies EXCEPT ![first].is_completed = TRUE]

-----------------------------------------------------------------------------
(* Achievements.                                                           *)

\* unlock_achievement: nothing for an id the catalog does not hold; otherwise
\* $addToSet the id and $inc the gold by the achievement's reward
unlock_achievement(doc, achievement_id) ==
  LET found == Entries(ACHIEVEMENTS, achievement_id) IN
  IF found = <<>> THEN doc
  ELSE [doc EXCEPT !.achievements = AddToSet(@, achievement_id),
                   !.gold = @ + found[1].reward_gold]

RECURSIVE UnlockAll(_, _)
UnlockAll(doc, ids) ==
  IF ids = <<>> THEN doc
  ELSE UnlockAll(unlock_achievement(doc, Head(ids)), Tail(ids))

\* One check of complete_quest: the id when the condition holds.
When(cond, achievement_id) == IF cond THEN <<achievement_id>> ELSE <<>>

\* A threshold family without the check of the snapshot's achievements.
ReachedAgain(family, value, user) ==
  LET hit == SelectSeq(family, LAMBDA a : value >= a.at) IN
  [ i \in DOMAIN hit |-> hit[i].id ]

\* A threshold family: the ids whose threshold the value has reached and that
\* the snapshot does not hold, in the order of the family.
Reached(family, value, user) ==
  LET hit == SelectSeq(family, LAMBDA a : value >= a.at /\ ~In(a.id, user.achievements)) IN
  [ i \in DOMAIN hit |-> hit[i].id ]

quest_achievements ==
  << [at |-> 10, id |-> "quests_10"], [at |-> 50, id |-> "quests_50"],
     [at |-> 100, id |-> "quests_100"], [at |-> 500, id |-> "quests_500"],
     [at |-> 1000, id |-> "quests_1000"] >>

\* The level thresholds with level_10 one level late.
level_achievements_late ==
  << [at |-> 11, id |-> "level_10"], [at |-> 25, id |-> "level_25"],
     [at |-> 40, id |-> "level_40"], [at |-> 50, id |-> "level_50"],
     [at |-> 60, id |-> "level_60"], [at |-> 80, id |-> "level_80"],
     [at |-> 100, id |-> "level_100"] >>

level_achievements ==
  << [at |-> 10, id |-> "level_10"], [at |-> 25, id |-> "level_25"],
     [at |-> 40, id |-> "level_40"], [at |-> 50, id |-> "level_50"],
     [at |-> 60, id |-> "level_60"], [at |-> 80, id |-> "level_80"],
     [at |-> 100, id |-> "level_100"] >>

streak_achievements ==
  << [at |-> 3, id |-> "streak_3"], [at |-> 7, id |-> "streak_7"],
     [at |-> 14, id |-> "streak_14"], [at |-> 30, id |-> "streak_30"],
     [at |-> 60, id |-> "streak_60"], [at |-> 100, id |-> "streak_100"],
     [at |-> 365, id |-> "streak_365"] >>

reps_achievements ==
  << [at |-> 1000, id |-> "reps_1000"], [at |-> 10000, id |-> "reps_10000"],
     [at |-> 100000, id |-> "reps_100000"] >>

dungeon_achievements ==
  [ E |-> <<[at |-> 5, id |-> "dungeon_e_5"]>>,
    D |-> <<[at |-> 5, id |-> "dungeon_d_5"]>>,
    C |-> <<[at |-> 5, id |-> "dungeon_c_5"]>>,
    B |-> <<[at |-> 5, id |-> "dungeon_b_5"]>>,
    A |-> <<[at |-> 5, id |-> "dungeon_a_5"]>>,
    S |-> <<[at |-> 1, id |-> "dungeon_s"]>> ]

boss_specific ==
  [ boss_igris |-> "boss_igris", boss_ant_king |-> "boss_beru",
    boss_antares |-> "boss_antares" ]

\* The achievement checks of complete_quest, in the order the code makes them:
\* the ids it passes to unlock_achievement.
AchievementChecks(user, quest_id, is_daily, quests_completed, new_level, new_total_reps, shadow_earned) ==
  LET has(id) == In(id, user.achievements)
      quests == When(quests_completed = 1, "first_quest")
                  \o Reached(quest_achievements, quests_completed, user)
      levels == Reached(level_achievements, new_level, user)
      streaks == IF is_daily THEN Reached(streak_achievements, user.streak, user) ELSE <<>>
      reps == Reached(reps_achievements, new_total_reps, user)
      dungeon == Entries(SPECIAL_DUNGEONS, quest_id)
      dungeons ==
        IF startswith(quest_id, "dungeon_") /\ dungeon # <<>>
          THEN LET rank == dungeon[1].difficulty
                   current_count == user.dungeons_completed[rank] + 1
               IN When(~has("dungeon_first"), "dungeon_first")
                    \o Reached(dungeon_achievements[rank], current_count, user)
                    \o When(rank = "S" /\ current_count >= 10 /\ ~has("dungeon_s_10"),
                            "dungeon_s_10")
          ELSE <<>>
      bosses ==
        IF startswith(quest_id, "boss_")
          THEN LET bosses_defeated == Append(user.bosses_defeated, quest_id) IN
               When(~has("boss_first"), "boss_first")
                 \o When(quest_id \in DOMAIN boss_specific
                           /\ ~has(boss_specific[quest_id]), boss_specific[quest_id])
                 \o When((\A i \in DOMAIN WEEKLY_BOSSES : In(WEEKLY_BOSSES[i].id, bosses_defeated))
                           /\ ~has("boss_all"), "boss_all")
          ELSE <<>>
      shadows ==
        IF shadow_earned # None
          THEN LET shadow_count == Len(user.shadows) + 1
                   info == Entries(SHADOWS, shadow_earned)
                   rarity == IF info = <<>> THEN "common" ELSE info[1].rarity
               IN When(shadow_count = 1, "shadow_first")
                    \o When(shadow_count >= 5 /\ ~has("shadow_5"), "shadow_5")
                    \o When(shadow_count >= 10 /\ ~has("shadow_10"), "shadow_10")
                    \o When(rarity = "legendary" /\ ~has("shadow_legendary"), "shadow_legendary")
                    \o When(rarity = "mythic" /\ ~has("shadow_mythic"), "shadow_mythic")
                    \o When(rarity = "divine" /\ ~has("shadow_divine"), "shadow_divine")
          ELSE <<>>
  IN quests \o levels \o streaks \o reps \o dungeons \o bosses \o shadows

-----------------------------------------------------------------------------
(* complete_quest.                                                         *)

RECURSIVE SumReps(_, _)
\* The repetition loops: a "repeticiones" exercise counts its reps, a "km"
\* exercise a hundred per kilometre where the loop has that branch.
SumReps(exercises, counts_km) ==
  IF exercises = <<>> THEN 0
  ELSE LET ex == Head(exercises) IN
       (IF ex.unit = "repeticiones" THEN ex.reps
        ELSE IF counts_km /\ ex.unit = "km" THEN ex.reps * 100
        ELSE 0) + SumReps(Tail(exercises), counts_km)

\* The streak rule without the cases: every daily completion adds a day.
NewStreakAlwaysAdds(user, now) == user.streak + 1

\* The streak after a daily completion.
NewStreak(user, now) ==
  LET last_date == user.last_quest_date
      yesterday == now - 1
  IN IF last_date = yesterday \/ last_date = now
       THEN user.streak + (IF last_date = now THEN 0 ELSE 1)
     ELSE IF last_date = NoDate THEN 1
     ELSE 1

\* A branch's success: its rewards and the documents after its own updates.
Branch(doc, dailies, exp_reward, gold_reward, total_reps_gained, shadow_earned, is_daily) ==
  [ status |-> 200, doc |-> doc, dailies |-> dailies, exp_reward |-> exp_reward,
    gold_reward |-> gold_reward, total_reps_gained |-> total_reps_gained,
    shadow_earned |-> shadow_earned, is_daily |-> is_daily ]

\* The daily branch's success with the best streak set to the new streak.
DailyBranchForgetsBest(user, doc, dailies, daily, now) ==
  LET new_streak == NewStreak(user, now)
  IN Branch([doc EXCEPT !.streak = new_streak,
                        !.best_streak = new_streak,
                        !.last_quest_date = now,
                        !.training_start_time = NoDate],
            MarkCompleted(dailies, daily.id),
            daily.exp_reward, daily.gold_reward,
            SumReps(daily.exercises, TRUE), None, TRUE)

\* The daily branch's success: the streak is updated and the quest is marked.
DailyBranch(user, doc, dailies, daily, now) ==
  LET new_streak == NewStreak(user, now)
      best_streak == Max(new_streak, user.best_streak)
  IN Branch([doc EXCEPT !.streak = new_streak,
                        !.best_streak = best_streak,
                        !.last_quest_date = now,
                        !.training_start_time = NoDate],
            MarkCompleted(dailies, daily.id),
            daily.exp_reward, daily.gold_reward,
            SumReps(daily.exercises, TRUE), None, TRUE)

\* The daily branch without the check of is_completed.
CompleteDailyUnchecked(user, doc, dailies, daily, now) ==
  DailyBranch(user, doc, dailies, daily, now)

\* The daily branch.
CompleteDaily(user, doc, dailies, daily, now) ==
  IF daily.is_completed THEN [status |-> 400, detail |-> "Mision ya completada"]
  ELSE DailyBranch(user, doc, dailies, daily, now)

\* The dungeon branch without the level gate.
CompleteDungeonUngated(user, doc, dailies, quest_id) ==
  LET dungeon == Entries(SPECIAL_DUNGEONS, quest_id) IN
  IF dungeon = <<>> THEN [status |-> 404, detail |-> "Mazmorra no encontrada"]
  ELSE LET rank == dungeon[1].difficulty IN
       Branch([doc EXCEPT !.dungeons_completed[rank] = @ + 1], dailies,
              dungeon[1].exp, dungeon[1].gold,
              SumReps(ScaledExercises(user.level, dungeon[1].multiplier10), TRUE),
              None, FALSE)

\* The dungeon branch.
CompleteDungeon(user, doc, dailies, quest_id) ==
  LET dungeon == Entries(SPECIAL_DUNGEONS, quest_id) IN
  IF dungeon = <<>> THEN [status |-> 404, detail |-> "Mazmorra no encontrada"]
  ELSE IF user.level < dungeon[1].min_level
    THEN [status |-> 400, detail |-> "Necesitas nivel", required |-> dungeon[1].min_level]
  ELSE LET rank == dungeon[1].difficulty IN
       Branch([doc EXCEPT !.dungeons_completed[rank] = @ + 1], dailies,
              dungeon[1].exp, dungeon[1].gold,
              SumReps(ScaledExercises(user.level, dungeon[1].multiplier10), TRUE),
              None, FALSE)

\* The grant of a shadow without the check of ownership.
GrantsShadowAlways(entry, user) == entry.shadow # None

\* Whether a boss or mission grants its shadow: it has one and the snapshot
\* does not own it.
GrantsShadow(entry, user) == entry.shadow # None /\ ~In(entry.shadow, user.shadows)

\* The boss branch.
CompleteBoss(user, doc, dailies, quest_id) ==
  LET boss == Entries(WEEKLY_BOSSES, quest_id) IN
  IF boss = <<>> THEN [status |-> 404, detail |-> "Jefe no encontrado"]
  ELSE IF user.level < boss[1].min_level
    THEN [status |-> 400, detail |-> "Necesitas nivel", required |-> boss[1].min_level]
  ELSE LET reps == SumReps(ScaledExercises(user.level, boss[1].multiplier10), TRUE) IN
       IF GrantsShadow(boss[1], user)
         THEN Branch([doc EXCEPT !.shadows = AddToSet(@, boss[1].shadow),
                                 !.bosses_defeated = AddToSet(@, quest_id)],
                     dailies, boss[1].exp, boss[1].gold, reps, boss[1].shadow, FALSE)
         ELSE Branch([doc EXCEPT !.bosses_defeated = AddToSet(@, quest_id)],
                     dailies, boss[1].exp, boss[1].gold, reps, None, FALSE)

\* The punishment branch with a $pull that matches every pending punishment.
CompletePunishmentPullsAll(user, doc, dailies, quest_id) ==
  LET punishment == Entries(user.punishment_quests, quest_id) IN
  IF punishment = <<>> THEN [status |-> 404, detail |-> "Castigo no encontrado"]
  ELSE Branch([doc EXCEPT !.punishment_quests = <<>>],
              dailies, punishment[1].exp_reward, 0,
              SumReps(punishment[1].exercises, FALSE), None, FALSE)

\* The punishment branch.
CompletePunishment(user, doc, dailies, quest_id) ==
  LET punishment == Entries(user.punishment_quests, quest_id) IN
  IF punishment = <<>> THEN [status |-> 404, detail |-> "Castigo no encontrado"]
  ELSE Branch([doc EXCEPT !.punishment_quests = SelectSeq(@, LAMBDA p : p.id # quest_id)],
              dailies, punishment[1].exp_reward, 0,
              SumReps(punishment[1].exercises, FALSE), None, FALSE)

\* The special mission branch without the check of the completed missions.
CompleteMissionAgain(user, doc, dailies, quest_id) ==
  LET mission == Entries(SPECIAL_MISSIONS, quest_id) IN
  IF mission = <<>> THEN [status |-> 404, detail |-> "Mision especial no encontrada"]
  ELSE IF GrantsShadow(mission[1], user)
    THEN Branch([doc EXCEPT !.shadows = AddToSet(@, mission[1].shadow),
                            !.special_missions_completed = AddToSet(@, quest_id)],
                dailies, mission[1].exp, mission[1].gold, 0, mission[1].shadow, FALSE)
    ELSE Branch([doc EXCEPT !.special_missions_completed = AddToSet(@, quest_id)],
                dailies, mission[1].exp, mission[1].gold, 0, None, FALSE)

\* The special mission branch.
CompleteMission(user, doc, dailies, quest_id) ==
  LET mission == Entries(SPECIAL_MISSIONS, quest_id) IN
  IF mission = <<>> THEN [status |-> 404, detail |-> "Mision especial no encontrada"]
  ELSE IF In(quest_id, user.special_missions_completed)
    THEN [status |-> 400, detail |-> "Mision ya completada"]
  ELSE IF GrantsShadow(mission[1], user)
    THEN Branch([doc EXCEPT !.shadows = AddToSet(@, mission[1].shadow),
                            !.special_missions_completed = AddToSet(@, quest_id)],
                dailies, mission[1].exp, mission[1].gold, 0, mission[1].shadow, FALSE)
    ELSE Branch([doc EXCEPT !.special_missions_completed = AddToSet(@, quest_id)],
                dailies, mission[1].exp, mission[1].gold, 0, None, FALSE)

\* The dispatch with a lookup of the daily quest by its id alone.
DispatchAnyOwner(user, doc, dailies, quest_id, now) ==
  LET daily == SelectSeq(dailies, LAMBDA d : d.id = quest_id) IN
  IF daily # <<>> THEN CompleteDaily(user, doc, dailies, daily[1], now)
  ELSE IF startswith(quest_id, "dungeon_") THEN CompleteDungeon(user, doc, dailies, quest_id)
  ELSE IF startswith(quest_id, "boss_") THEN CompleteBoss(user, doc, dailies, quest_id)
  ELSE IF startswith(quest_id, "punishment_") THEN CompletePunishment(user, doc, dailies, quest_id)
  ELSE IF startswith(quest_id, "mission_") THEN CompleteMission(user, doc, dailies, quest_id)
  ELSE [status |-> 404, detail |-> "Mision no encontrada"]

\* The dispatch on the quest id: a stored daily quest of the caller, then the
\* id's prefix.
Dispatch(user, doc, dailies, quest_id, now) ==
  LET daily == SelectSeq(dailies, LAMBDA d : d.id = quest_id /\ d.user_id = user.id) IN
  IF daily # <<>> THEN CompleteDaily(user, doc, dailies, daily[1], now)
  ELSE IF startswith(quest_id, "dungeon_") THEN CompleteDungeon(user, doc, dailies, quest_id)
  ELSE IF startswith(quest_id, "boss_") THEN CompleteBoss(user, doc, dailies, quest_id)
  ELSE IF startswith(quest_id, "punishment_") THEN CompletePunishment(user, doc, dailies, quest_id)
  ELSE IF startswith(quest_id, "mission_") THEN CompleteMission(user, doc, dailies, quest_id)
  ELSE [status |-> 404, detail |-> "Mision no encontrada"]

\* The update of the user with total_reps set to the repetitions of the quest.
ApplyRewardSetsReps(doc, b, l) ==
  [doc EXCEPT !.experience = l.new_exp,
              !.level = l.new_level,
              !.rank = calculate_rank(l.new_level),
              !.gold = @ + b.gold_reward,
              !.stat_points = @ + l.stat_points_gained,
              !.quests_completed = @ + 1,
              !.total_reps = b.total_reps_gained]

\* The update of the user after the level-up loop left l: experience, level
\* and rank are set, the counters are incremented.
ApplyReward(doc, b, l) ==
  [doc EXCEPT !.experience = l.new_exp,
              !.level = l.new_level,
              !.rank = calculate_rank(l.new_level),
              !.gold = @ + b.gold_reward,
              !.stat_points = @ + l.stat_points_gained,
              !.quests_completed = @ + 1,
              !.total_reps = @ + b.total_reps_gained]

\* complete_quest: the response, and the documents after the request
complete_quest(user, doc, dailies, quest_id, now) ==
  LET b == Dispatch(user, doc, dailies, quest_id, now) IN
  IF b.status # 200 THEN [response |-> b, doc |-> doc, dailies |-> dailies]
  ELSE LET l == LevelUp(LoopEntry(user.experience, user.level, b.exp_reward))
           quests_completed == user.quests_completed + 1
           new_total_reps == user.total_reps + b.total_reps_gained
           unlocked == AchievementChecks(user, quest_id, b.is_daily, quests_completed,
                                         l.new_level, new_total_reps, b.shadow_earned)
       IN [ response |->
              [ status |-> 200,
                exp_gained |-> b.exp_reward,
                gold_gained |-> b.gold_reward,
                new_level |-> l.new_level,
                new_exp |-> l.new_exp,
                exp_to_next |-> l.exp_needed,
                new_rank |-> calculate_rank(l.new_level),
                stat_points_gained |-> l.stat_points_gained,
                level_up |-> l.new_level > user.level,
                achievements_unlocked |-> unlocked,
                shadow_earned |-> b.shadow_earned,
                reps_gained |-> b.total_reps_gained ],
            doc |-> UnlockAll(ApplyReward(b.doc, b, l), unlocked),
            dailies |-> b.dailies ]

-----------------------------------------------------------------------------
(* fail_quest, buy_item, upgrade_stat, start_training.                     *)

\* The penalty rounded up instead of truncated.
ExpPenaltyRoundedUp(experience) == (experience * 15 + 99) \div 100

\* int(experience * 0.15): the double-precision product truncates to the
\* exact floor of 15 * experience / 100.
ExpPenalty(experience) == (experience * 15) \div 100

\* The punishment quest fail_quest instantiates from a template.
PunishmentQuest(punishment, uuid8) ==
  [ id |-> "punishment_" \o uuid8,
    name |-> punishment.name,
    exercises |-> punishment.exercises,
    exp_reward |-> punishment.exp ]

\* The streak update that consumes a shield and resets the streak all the same.
FailStreakIgnoresShield(user, doc) ==
  IF user.streak_shields > 0
    THEN [doc EXCEPT !.streak_shields = @ - 1, !.streak = 0]
    ELSE [doc EXCEPT !.streak = 0]

\* The streak update of fail_quest: a shield is consumed, or the streak is reset.
FailStreak(user, doc) ==
  IF user.streak_shields > 0
    THEN [doc EXCEPT !.streak_shields = @ - 1]
    ELSE [doc EXCEPT !.streak = 0]

\* fail_quest; choice is the template random.choice picks, uuid8 the fresh id
fail_quest(user, doc, choice, uuid8) ==
  LET streak_protected == user.streak_shields > 0
      punishment_quest == PunishmentQuest(PUNISHMENT_QUESTS[choice], uuid8)
      exp_penalty == ExpPenalty(user.experience)
      new_exp == Max(0, user.experience - exp_penalty)
  IN [ response |->
         [ status |-> 200,
           exp_lost |-> exp_penalty,
           punishment_assigned |-> punishment_quest.name,
           streak_protected |-> streak_protected ],
       doc |-> [FailStreak(user, doc) EXCEPT
                  !.experience = new_exp,
                  !.training_start_time = NoDate,
                  !.punishment_quests = Append(@, punishment_quest)] ]

\* The update buy_item builds for an item: $inc of the gold by minus the price
\* and the item's effect.
Purchase(doc, item) ==
  LET paid == [doc EXCEPT !.gold = @ - item.price]
      effect == item.effect
  IN IF item.type = "consumable"
       THEN [paid EXCEPT
               !.experience = IF "exp" \in effect.keys THEN @ + effect.exp ELSE @,
               !.gold = IF "gold" \in effect.keys THEN @ + effect.gold ELSE @,
               !.streak_shields =
                  IF "streak_shield" \in effect.keys THEN @ + effect.streak_shield ELSE @]
     ELSE IF item.type = "title" THEN [paid EXCEPT !.title = effect.title]
     ELSE IF item.type = "stat_boost" THEN [paid EXCEPT !.stats[effect.stat] = @ + effect.value]
     ELSE paid

\* buy_item without the check of the gold.
buy_item_on_credit(user, doc, item_id) ==
  LET item == Entries(SHOP_ITEMS, item_id) IN
  IF item = <<>> THEN [response |-> [status |-> 404, detail |-> "Item no encontrado"], doc |-> doc]
  ELSE [response |-> [status |-> 200, detail |-> item_id], doc |-> Purchase(doc, item[1])]

\* buy_item
buy_item(user, doc, item_id) ==
  LET item == Entries(SHOP_ITEMS, item_id) IN
  IF item = <<>> THEN [response |-> [status |-> 404, detail |-> "Item no encontrado"], doc |-> doc]
  ELSE IF user.gold < item[1].price
    THEN [response |-> [status |-> 400, detail |-> "Oro insuficiente"], doc |-> doc]
  ELSE [response |-> [status |-> 200, detail |-> item_id], doc |-> Purchase(doc, item[1])]

StatNames == {"strength", "endurance", "agility", "vitality"}

\* upgrade_stat
upgrade_stat(user, doc, stat_name, points) ==
  IF user.stat_points < points
    THEN [response |-> [status |-> 400, detail |-> "puntos insuficientes"], doc |-> doc]
  ELSE IF stat_name \notin StatNames
    THEN [response |-> [status |-> 400, detail |-> "Estadistica invalida"], doc |-> doc]
  ELSE LET new_stat_value == user.stats[stat_name] + points
           unlocked ==
             When(new_stat_value >= 50 /\ ~In("stats_50", user.achievements), "stats_50")
               \o When(new_stat_value >= 100 /\ ~In("stats_100", user.achievements), "stats_100")
       IN [ response |-> [status |-> 200, achievements_unlocked |-> unlocked],
            doc |-> UnlockAll([doc EXCEPT !.stats[stat_name] = @ + points,
                                          !.stat_points = @ - points],
                              unlocked) ]

\* start_training
start_training(doc, now) == [doc EXCEPT !.training_start_time = now]

-----------------------------------------------------------------------------
(* Guilds.                                                                 *)

\* db.guilds.find_one({"id": guild_id}): the matching guilds, first first
GuildsWithId(gs, guild_id) == SelectSeq(gs, LAMBDA g : g.id = guild_id)

\* The document create_guild inserts.
NewGuild(guild_id, name, user) ==
  [ id |-> guild_id,
    name |-> name,
    leader_id |-> user.id,
    leader_name |-> user.hunter_name,
    members |-> << user.id >>,
    member_count |-> 1,
    total_level |-> user.level ]

\* The position of the first document with this id: the one update_one and
\* delete_one match. 0 when no document has the id.
FirstWithId(docs, id) ==
  LET hits == { i \in DOMAIN docs : docs[i].id = id } IN
  IF hits = {} THEN 0 ELSE CHOOSE i \in hits : \A j \in hits : i <= j

\* join_guild's update of the guild without the $inc of the total level.
GuildPushLevelless(gs, guild_id, user) ==
  LET first == FirstWithId(gs, guild_id) IN
  IF first = 0 THEN gs
  ELSE [gs EXCEPT ![first] = [@ EXCEPT !.members = Append(@, user.id),
                                       !.member_count = @ + 1]]

\* join_guild's update of the guild: $push of the member, $inc of the count
\* and of the total level by the snapshot's level
GuildPush(gs, guild_id, user) ==
  LET first == FirstWithId(gs, guild_id) IN
  IF first = 0 THEN gs
  ELSE [gs EXCEPT ![first] = [@ EXCEPT !.members = Append(@, user.id),
                                       !.member_count = @ + 1,
                                       !.total_level = @ + user.level]]

\* leave_guild's update of the guild taking the member's level twice.
GuildPullTwice(gs, guild_id, user) ==
  LET first == FirstWithId(gs, guild_id) IN
  IF first = 0 THEN gs
  ELSE [gs EXCEPT ![first] = [@ EXCEPT !.members = SelectSeq(@, LAMBDA m : m # user.id),
                                       !.member_count = @ - 1,
                                       !.total_level = @ - 2 * user.level]]

\* leave_guild's update of the guild: $pull of the member, $inc of the count
\* by -1 and of the total level by minus the snapshot's level
GuildPull(gs, guild_id, user) ==
  LET first == FirstWithId(gs, guild_id) IN
  IF first = 0 THEN gs
  ELSE [gs EXCEPT ![first] = [@ EXCEPT !.members = SelectSeq(@, LAMBDA m : m # user.id),
                                       !.member_count = @ - 1,
                                       !.total_level = @ - user.level]]

\* db.guilds.delete_one({"id": guild_id})
GuildDelete(gs, guild_id) ==
  LET hits == { i \in DOMAIN gs : gs[i].id = guild_id } IN
  IF hits = {} THEN gs
  ELSE LET first == CHOOSE i \in hits : \A j \in hits : i <= j IN
       SubSeq(gs, 1, first - 1) \o SubSeq(gs, first + 1, Len(gs))

\* db.users.update_one({"id": user_id}, {"$set": {"guild_id": guild_id}})
SetGuild(us, user_id, guild_id) ==
  [ u \in DOMAIN us |-> IF u = user_id THEN [us[u] EXCEPT !.guild_id = guild_id] ELSE us[u] ]

\* db.users.update_many({"guild_id": guild_id}, {"$set": {"guild_id": None}})
ClearGuild(us, guild_id) ==
  [ u \in DOMAIN us |-> IF us[u].guild_id = guild_id THEN [us[u] EXCEPT !.guild_id = None]
                        ELSE us[u] ]

\* The achievement of a guild request: unlocked when the snapshot lacks it.
GuildAchievement(user, us, achievement_id) ==
  IF In(achievement_id, user.achievements) THEN us
  ELSE [ u \in DOMAIN us |-> IF u = user.id THEN unlock_achievement(us[u], achievement_id)
                              ELSE us[u] ]

\* create_guild without the lookup of the name.
create_guild_any_name(user, us, gs, name, guild_id) ==
  IF user.guild_id # None
    THEN [response |-> [status |-> 400, detail |-> "Ya perteneces a un gremio"],
          users |-> us, guilds |-> gs]
  ELSE [response |-> [status |-> 200, guild_id |-> guild_id],
        users |-> GuildAchievement(user, SetGuild(us, user.id, guild_id), "guild_create"),
        guilds |-> Append(gs, NewGuild(guild_id, name, user))]

\* create_guild; guild_id is the fresh id
create_guild(user, us, gs, name, guild_id) ==
  IF user.guild_id # None
    THEN [response |-> [status |-> 400, detail |-> "Ya perteneces a un gremio"],
          users |-> us, guilds |-> gs]
  ELSE IF \E i \in DOMAIN gs : gs[i].name = name
    THEN [response |-> [status |-> 400, detail |-> "Ya existe un gremio con ese nombre"],
          users |-> us, guilds |-> gs]
  ELSE [response |-> [status |-> 200, guild_id |-> guild_id],
        users |-> GuildAchievement(user, SetGuild(us, user.id, guild_id), "guild_create"),
        guilds |-> Append(gs, NewGuild(guild_id, name, user))]

\* join_guild without the check of the caller's guild.
join_guild_unchecked(user, us, gs, guild_id) ==
  IF GuildsWithId(gs, guild_id) = <<>>
    THEN [response |-> [status |-> 404, detail |-> "Gremio no encontrado"],
          users |-> us, guilds |-> gs]
  ELSE [response |-> [status |-> 200, guild_id |-> guild_id],
        users |-> GuildAchievement(user, SetGuild(us, user.id, guild_id), "guild_join"),
        guilds |-> GuildPush(gs, guild_id, user)]

\* join_guild
join_guild(user, us, gs, guild_id) ==
  IF user.guild_id # None
    THEN [response |-> [status |-> 400, detail |-> "Ya perteneces a un gremio"],
          users |-> us, guilds |-> gs]
  ELSE IF GuildsWithId(gs, guild_id) = <<>>
    THEN [response |-> [status |-> 404, detail |-> "Gremio no encontrado"],
          users |-> us, guilds |-> gs]
  ELSE [response |-> [status |-> 200, guild_id |-> guild_id],
        users |-> GuildAchievement(user, SetGuild(us, user.id, guild_id), "guild_join"),
        guilds |-> GuildPush(gs, guild_id, user)]

\* leave_guild with the leader's leave clearing the leader's reference only.
leave_guild_keeps_members(user, us, gs) ==
  IF user.guild_id = None
    THEN [response |-> [status |-> 400, detail |-> "No perteneces a ningun gremio"],
          users |-> us, guilds |-> gs]
  ELSE LET guild == GuildsWithId(gs, user.guild_id) IN
       IF guild # <<>> /\ guild[1].leader_id = user.id
         THEN [response |-> [status |-> 200, guild_id |-> user.guild_id],
               users |-> SetGuild(us, user.id, None),
               guilds |-> GuildDelete(gs, user.guild_id)]
         ELSE [response |-> [status |-> 200, guild_id |-> user.guild_id],
               users |-> SetGuild(us, user.id, None),
               guilds |-> GuildPull(gs, user.guild_id, user)]

\* leave_guild
leave_guild(user, us, gs) ==
  IF user.guild_id = None
    THEN [response |-> [status |-> 400, detail |-> "No perteneces a ningun gremio"],
          users |-> us, guilds |-> gs]
  ELSE LET guild == GuildsWithId(gs, user.guild_id) IN
       IF guild # <<>> /\ guild[1].leader_id = user.id
         THEN [response |-> [status |-> 200, guild_id |-> user.guild_id],
               users |-> ClearGuild(us, user.guild_id),
               guilds |-> GuildDelete(gs, user.guild_id)]
         ELSE [response |-> [status |-> 200, guild_id |-> user.guild_id],
               users |-> SetGuild(us, user.id, None),
               guilds |-> GuildPull(gs, user.guild_id, user)]

-----------------------------------------------------------------------------
(* The listings: projections of the catalog for a user, never stored.      *)

\* get_special_quests: the ids of the dungeons listed for the user
get_special_quests(user) ==
  [ i \in DOMAIN SelectSeq(SPECIAL_DUNGEONS, LAMBDA d : user.level >= d.min_level) |->
      SelectSeq(SPECIAL_DUNGEONS, LAMBDA d : user.level >= d.min_level)[i].id ]

\* get_weekly_boss: the ids of the bosses listed for the user
get_weekly_boss(user) ==
  [ i \in DOMAIN SelectSeq(WEEKLY_BOSSES, LAMBDA b : user.level >= b.min_level) |->
      SelectSeq(WEEKLY_BOSSES, LAMBDA b : user.level >= b.min_level)[i].id ]

\* rank_order.get(rank, 0) of get_special_missions
rank_order(rank) ==
  CASE rank = "E" -> 1 [] rank = "D" -> 2 [] rank = "C" -> 3
    [] rank = "B" -> 4 [] rank = "A" -> 5 [] rank = "S" -> 6
    [] OTHER -> 0

\* can_complete of get_special_missions, before "and not is_completed"
RequirementMet(user, req) ==
  IF req.type = "streak" THEN user.streak >= req.value
  ELSE IF req.type = "level" THEN user.level >= req.value
  ELSE IF req.type = "rank" THEN rank_order(user.rank) >= rank_order(req.rank)
  ELSE IF req.type = "dungeon_count" THEN user.dungeons_completed[req.rank] >= req.value
  ELSE IF req.type = "total_reps" THEN user.total_reps >= req.value
  ELSE IF req.type = "no_fail_streak" THEN user.streak >= req.value
  ELSE FALSE

\* get_special_missions: the missions listed for the user, each with
\* is_completed and can_complete
get_special_missions(user) ==
  LET listed == SelectSeq(SPECIAL_MISSIONS, LAMBDA m : user.level >= m.min_level) IN
  [ i \in DOMAIN listed |->
      LET is_completed == In(listed[i].id, user.special_missions_completed) IN
      [ id |-> listed[i].id,
        min_level |-> listed[i].min_level,
        is_completed |-> is_completed,
        can_complete |-> RequirementMet(user, listed[i].requirement) /\ ~is_completed ] ]
-----------------------------------------------------------------------------
(* The sequential specification: one request is served at a time, so the   *)
(* snapshot a handler works from is the stored document.                   *)

\* A hunter the program reaches from register by completing, 72985 times, the
\* dungeon of highest experience its level admits (14 prueba_novato, 28
\* cueva_goblins, 503 bosque_oscuro, 833 mina_abandonada, 4479 templo_serpiente,
\* 21224 pantano_veneno, 45904 ruinas_antiguas): the first state at level 20.
Veteran ==
  [ NewUser(Uuid("user", 1), "hunter@example.com", "Veteran") EXCEPT
      !.level = 20,
      !.experience = 23,
      !.rank = "D",
      !.gold = 8094920,
      !.stat_points = 57,
      !.achievements =
         << "first_quest", "dungeon_first", "dungeon_e_5", "reps_1000", "quests_10",
            "quests_50", "reps_10000", "quests_100", "reps_100000", "quests_500",
            "level_10", "dungeon_d_5", "quests_1000" >>,
      !.quests_completed = 72985,
      !.total_reps = 60177771,
      !.dungeons_completed = [E |-> 545, D |-> 72440, C |-> 0, B |-> 0, A |-> 0, S |-> 0] ]

\* The hunter register has just inserted.
Novice == NewUser(Uuid("user", 1), "hunter@example.com", "Veteran")

Idle == [pc |-> "idle"]

\* The database is empty, or holds the veteran.
Init ==
  /\ users \in { <<>>, (Veteran.id :> Veteran) }
  /\ daily_quests = <<>>
  /\ guilds = <<>>
  /\ today = 1
  /\ last = [op |-> "start"]
  /\ served = 0
  /\ loop = Idle
  /\ inflight = <<>>

\* The requests the model sends.
RegisterInputs ==
  { <<"hunter@example.com", "Veteran">> }

\* The ids of the user's stored daily quests and pending punishments.
OwnQuests(u) ==
  { daily_quests[i].id : i \in { j \in DOMAIN daily_quests : daily_quests[j].user_id = u } }
    \cup { users[u].punishment_quests[i].id : i \in DOMAIN users[u].punishment_quests }

QuestInputs(u) ==
  OwnQuests(u)
    \cup { "dungeon_prueba_novato", "dungeon_mina_abandonada", "boss_igris",
           "mission_cazador_real", "mission_ano_acero", "desconocida" }

ItemInputs == { "potion_exp_1", "streak_protect", "stat_str", "nada" }

StatInputs == { "strength", "suerte" }

PointInputs == { 1 }

\* The templates random.choice picks in the model: one whose unit counts as
\* repetitions and one whose unit does not.
PunishmentChoices == { 1, 2 }

Register(email, hunter_name) ==
  LET r == register(email, hunter_name) IN
  /\ users' = IF r.status = 200 THEN (r.user.id :> r.user) @@ users ELSE users
  /\ last' = [op |-> "register", email |-> email, hunter_name |-> hunter_name,
              response |-> [status |-> r.status, detail |-> r.detail]]
  /\ UNCHANGED <<daily_quests, guilds, today, served, loop, inflight>>

GetDaily(u) ==
  LET r == get_daily_quests(users[u], daily_quests, today) IN
  /\ daily_quests' = r.dailies
  /\ last' = [op |-> "daily", user |-> u,
              response |-> [status |-> r.status, created |-> r.created, quest |-> r.quest]]
  /\ UNCHANGED <<users, guilds, today, served, loop, inflight>>

StartTraining(u) ==
  /\ users' = [users EXCEPT ![u] = start_training(@, today)]
  /\ last' = [op |-> "start_training", user |-> u, response |-> [status |-> 200]]
  /\ UNCHANGED <<daily_quests, guilds, today, served, loop, inflight>>

\* The count of the successful requests, one more after a success.
Counted(response) == IF response.status = 200 THEN served + 1 ELSE served

Complete(u, quest_id) ==
  /\ served < MaxRequests
  /\ LET r == complete_quest(users[u], users[u], daily_quests, quest_id, today) IN
     /\ users' = [users EXCEPT ![u] = r.doc]
     /\ daily_quests' = r.dailies
     /\ last' = [op |-> "complete", user |-> u, quest_id |-> quest_id, response |-> r.response]
     /\ served' = Counted(r.response)
  /\ UNCHANGED <<guilds, today, loop, inflight>>

Fail(u, choice) ==
  /\ served < MaxRequests
  /\ LET r == fail_quest(users[u], users[u], choice, ToString(served + 1)) IN
     /\ users' = [users EXCEPT ![u] = r.doc]
     /\ last' = [op |-> "fail", user |-> u, response |-> r.response]
     /\ served' = Counted(r.response)
  /\ UNCHANGED <<daily_quests, guilds, today, loop, inflight>>

Buy(u, item_id) ==
  /\ served < MaxRequests
  /\ LET r == buy_item(users[u], users[u], item_id) IN
     /\ users' = [users EXCEPT ![u] = r.doc]
     /\ last' = [op |-> "buy", user |-> u, item_id |-> item_id, response |-> r.response]
     /\ served' = Counted(r.response)
  /\ UNCHANGED <<daily_quests, guilds, today, loop, inflight>>

Upgrade(u, stat_name, points) ==
  /\ served < MaxRequests
  /\ LET r == upgrade_stat(users[u], users[u], stat_name, points) IN
     /\ users' = [users EXCEPT ![u] = r.doc]
     /\ last' = [op |-> "upgrade", user |-> u, stat_name |-> stat_name, points |-> points,
                 response |-> r.response]
     /\ served' = Counted(r.response)
  /\ UNCHANGED <<daily_quests, guilds, today, loop, inflight>>

\* Midnight UTC passes.
NextDay ==
  /\ today < MaxDay
  /\ today' = today + 1
  /\ last' = [op |-> "midnight"]
  /\ UNCHANGED <<users, daily_quests, guilds, served, loop, inflight>>

\* One day of requests of every kind.
Next ==
  \/ \E p \in RegisterInputs : Register(p[1], p[2])
  \/ \E u \in UserIds : GetDaily(u)
  \/ \E u \in UserIds : StartTraining(u)
  \/ \E u \in UserIds : \E q \in QuestInputs(u) : Complete(u, q)
  \/ \E u \in UserIds : \E c \in PunishmentChoices : Fail(u, c)
  \/ \E u \in UserIds : \E i \in ItemInputs : Buy(u, i)
  \/ \E u \in UserIds : \E s \in StatInputs : \E p \in PointInputs : Upgrade(u, s, p)

Spec == Init /\ [][Next]_vars

-----------------------------------------------------------------------------
(* The daily routine over several days: the daily quest is fetched,        *)
(* trained, completed or failed, and a streak shield may be bought.        *)

\* The veteran after fetching and completing the daily quest on day 1 and on
\* day 2 (65 experience, 30 gold and 532 repetitions each): a streak of two days.
Regular ==
  [ doc |-> [ Veteran EXCEPT
                !.experience = 153,
                !.gold = 8094980,
                !.quests_completed = 72987,
                !.total_reps = 60178835,
                !.streak = 2,
                !.best_streak = 2,
                !.last_quest_date = 2 ],
    dailies |-> << [NewDaily(Uuid("daily", 1), Veteran, 1) EXCEPT !.is_completed = TRUE],
                   [NewDaily(Uuid("daily", 2), Veteran, 2) EXCEPT !.is_completed = TRUE] >> ]

\* Day 3 begins: the veteran has never completed a daily quest, or has the
\* streak of days 1 and 2.
InitDaily ==
  /\ \/ users = (Veteran.id :> Veteran) /\ daily_quests = <<>>
     \/ users = (Veteran.id :> Regular.doc) /\ daily_quests = Regular.dailies
  /\ guilds = <<>>
  /\ today = 3
  /\ last = [op |-> "start"]
  /\ served = 0
  /\ loop = Idle
  /\ inflight = <<>>

DailyQuestInputs(u) ==
  OwnQuests(u) \cup { "dungeon_prueba_novato", "boss_igris", "mission_cazador_real" }

NextDaily ==
  \/ \E u \in UserIds : GetDaily(u)
  \/ \E u \in UserIds : \E q \in DailyQuestInputs(u) : Complete(u, q)
  \/ \E u \in UserIds : \E c \in PunishmentChoices : Fail(u, c)
  \/ \E u \in UserIds : Buy(u, "streak_protect")
  \/ NextDay

SpecDaily == InitDaily /\ [][NextDaily]_vars

-----------------------------------------------------------------------------
(* The level-up loop of complete_quest, one step at a time.  The branch    *)
(* that ran before it is reduced to the experience it rewards.             *)

\* The experience a branch hands the loop.
LoopRewards == { 30, 150, 500, 50000 }

InitLoop ==
  /\ users \in { (Novice.id :> Novice), (Veteran.id :> Veteran) }
  /\ daily_quests = <<>>
  /\ guilds = <<>>
  /\ today = 1
  /\ last = [op |-> "start"]
  /\ served = 0
  /\ loop = Idle
  /\ inflight = <<>>

\* new_exp, new_level, stat_points_gained and exp_needed are initialised.
LoopEnter(u, exp_reward) ==
  /\ loop.pc \in {"idle", "done"}
  /\ served < MaxRequests
  /\ loop' = [ pc |-> "test", user |-> u, exp_reward |-> exp_reward,
               experience |-> users[u].experience, level |-> users[u].level,
               stat_points |-> users[u].stat_points,
               l |-> LoopEntry(users[u].experience, users[u].level, exp_reward) ]
  /\ UNCHANGED <<users, daily_quests, guilds, today, last, served, inflight>>

\* The loop's condition holds: its body runs once.
LoopIter ==
  /\ loop.pc = "test"
  /\ LoopCond(loop.l)
  /\ loop' = [loop EXCEPT !.l = LoopBody(@)]
  /\ UNCHANGED <<users, daily_quests, guilds, today, last, served, inflight>>

\* The loop's condition fails: the user is updated.
LoopExit ==
  /\ loop.pc = "test"
  /\ ~LoopCond(loop.l)
  /\ users' = [users EXCEPT ![loop.user] =
                 ApplyReward(@, Branch(@, daily_quests, loop.exp_reward, 0, 0, None, FALSE),
                             loop.l)]
  /\ loop' = [loop EXCEPT !.pc = "done"]
  /\ served' = served + 1
  /\ UNCHANGED <<daily_quests, guilds, today, last, inflight>>

NextLoop ==
  \/ \E u \in UserIds : \E r \in LoopRewards : LoopEnter(u, r)
  \/ LoopIter
  \/ LoopExit

\* Once entered, the loop runs on: the handler is sequential code.
SpecLoop == InitLoop /\ [][NextLoop]_vars /\ WF_vars(LoopIter) /\ WF_vars(LoopExit)

-----------------------------------------------------------------------------
(* Two requests of one user overlap: get_current_user loads the snapshot   *)
(* of both before either handler writes.                                   *)

Request(op, quest_id, item_id, choice) ==
  [op |-> op, quest_id |-> quest_id, item_id |-> item_id, choice |-> choice]

\* The requests that overlap.
Requests ==
  { Request("complete", "dungeon_prueba_novato", None, 0),
    Request("complete", "boss_igris", None, 0),
    Request("complete", "mission_cazador_real", None, 0),
    Request("buy", None, "potion_exp_1", 0),
    Request("buy", None, "streak_protect", 0),
    Request("fail", None, None, 1) }

\* The handler of a request, run from the snapshot user against the stored
\* document doc; n numbers the request.
Handle(request, user, doc, dailies, now, n) ==
  IF request.op = "complete"
    THEN complete_quest(user, doc, dailies, request.quest_id, now)
  ELSE IF request.op = "buy"
    THEN LET r == buy_item(user, doc, request.item_id) IN
         [response |-> r.response, doc |-> r.doc, dailies |-> dailies]
  ELSE LET r == fail_quest(user, doc, request.choice, ToString(n)) IN
       [response |-> r.response, doc |-> r.doc, dailies |-> dailies]

InitConc ==
  /\ users \in { (Novice.id :> Novice), (Veteran.id :> Veteran) }
  /\ daily_quests = <<>>
  /\ guilds = <<>>
  /\ today = 1
  /\ last = [op |-> "start"]
  /\ served = 0
  /\ loop = Idle
  /\ inflight = <<>>

\* get_current_user: the request's snapshot of the user is loaded.  The first
\* load records the documents the overlap starts from.
Load(u, request) ==
  /\ Len(inflight) < 2
  /\ inflight' = Append(inflight, [user |-> u, request |-> request, snapshot |-> users[u],
                                   written |-> FALSE, response |-> [status |-> 0]])
  /\ last' = IF inflight = <<>>
               THEN [op |-> "load", user |-> u, doc |-> users[u], dailies |-> daily_quests]
               ELSE last
  /\ UNCHANGED <<users, daily_quests, guilds, today, served, loop>>

\* The handler of a loaded request runs and writes.
Write(i) ==
  /\ Len(inflight) = 2
  /\ ~inflight[i].written
  /\ LET e == inflight[i]
         r == Handle(e.request, e.snapshot, users[e.user], daily_quests, today, i)
     IN /\ users' = [users EXCEPT ![e.user] = r.doc]
        /\ daily_quests' = r.dailies
        /\ inflight' = [inflight EXCEPT ![i].written = TRUE, ![i].response = r.response]
  /\ UNCHANGED <<guilds, today, last, served, loop>>

NextConc ==
  \/ \E u \in UserIds : \E r \in Requests : Load(u, r)
  \/ \E i \in DOMAIN inflight : Write(i)

SpecConc == InitConc /\ [][NextConc]_vars

-----------------------------------------------------------------------------
(* The stats: the veteran spends stat points and buys stat crystals.       *)

InitStats ==
  /\ users = (Veteran.id :> Veteran)
  /\ daily_quests = <<>>
  /\ guilds = <<>>
  /\ today = 1
  /\ last = [op |-> "start"]
  /\ served = 0
  /\ loop = Idle
  /\ inflight = <<>>

\* The points of an upgrade request: one point, or most of the veteran's.
StatsPointInputs == { 1, 38 }

StatsStatInputs == { "strength", "endurance" }

StatsItemInputs == { "stat_str", "stat_end" }

NextStats ==
  \/ \E u \in UserIds : \E s \in StatsStatInputs : \E p \in StatsPointInputs : Upgrade(u, s, p)
  \/ \E u \in UserIds : \E i \in StatsItemInputs : Buy(u, i)

SpecStats == InitStats /\ [][NextStats]_vars

-----------------------------------------------------------------------------
(* The catalog quests: a hunter completes dungeons and special missions,   *)
(* some of them unknown, some above its level, some completed before.      *)

\* The database holds the novice, or the veteran.
InitCatalog ==
  /\ users \in { (Novice.id :> Novice), (Veteran.id :> Veteran) }
  /\ daily_quests = <<>>
  /\ guilds = <<>>
  /\ today = 1
  /\ last = [op |-> "start"]
  /\ served = 0
  /\ loop = Idle
  /\ inflight = <<>>

\* Dungeons of rank E, D and C, the last above the veteran's level, two
\* missions, one of them with a shadow, and ids the catalog does not hold.
CatalogInputs ==
  { "dungeon_prueba_novato", "dungeon_mina_abandonada", "dungeon_fortaleza_hielo",
    "dungeon_desconocida", "mission_despertar", "mission_cazador_real",
    "mission_desconocida" }

NextCatalog == \E u \in UserIds : \E q \in CatalogInputs : Complete(u, q)

SpecCatalog == InitCatalog /\ [][NextCatalog]_vars

-----------------------------------------------------------------------------
(* The punishments: a hunter fails quests and completes punishments,       *)
(* pending ones and ones that are not pending.                             *)

InitPunish ==
  /\ users \in { (Novice.id :> Novice), (Veteran.id :> Veteran) }
  /\ daily_quests = <<>>
  /\ guilds = <<>>
  /\ today = 1
  /\ last = [op |-> "start"]
  /\ served = 0
  /\ loop = Idle
  /\ inflight = <<>>

\* Every id fail_quest gives in the model, pending, not yet given or
\* completed, an id it never gives, and a dungeon.
PunishmentInputs ==
  { "punishment_" \o ToString(n) : n \in 1..MaxRequests }
    \cup { "punishment_desconocido", "dungeon_prueba_novato" }

NextPunish ==
  \/ \E u \in UserIds : \E c \in PunishmentChoices : Fail(u, c)
  \/ \E u \in UserIds : \E q \in PunishmentInputs : Complete(u, q)

SpecPunish == InitPunish /\ [][NextPunish]_vars

-----------------------------------------------------------------------------
(* Two hunters: each fetches its daily quest and sends completes with the  *)
(* ids of its own quest, of the other's, and of no quest at all.           *)

\* The hunter a second register inserts next to the veteran.
Rookie == NewUser(Uuid("user", 2), "novato@example.com", "Novato")

InitOwn ==
  /\ users = (Veteran.id :> Veteran) @@ (Rookie.id :> Rookie)
  /\ daily_quests = <<>>
  /\ guilds = <<>>
  /\ today = 1
  /\ last = [op |-> "start"]
  /\ served = 0
  /\ loop = Idle
  /\ inflight = <<>>

\* The id of every stored daily quest, whoever owns it, and ids of no quest:
\* one without a prefix, one with a prefix that lacks the underscore, one of
\* the form of a daily quest's id.
OwnInputs ==
  { daily_quests[i].id : i \in DOMAIN daily_quests }
    \cup { "desconocida", "dungeonprueba_novato", Uuid("daily", 0) }

NextOwn ==
  \/ \E u \in UserIds : GetDaily(u)
  \/ \E u \in UserIds : \E q \in OwnInputs : Complete(u, q)

SpecOwn == InitOwn /\ [][NextOwn]_vars

-----------------------------------------------------------------------------
(* The guilds: two hunters of different levels create, join and leave      *)
(* guilds, and complete a mission that raises the level of the lower one.  *)

InitGuild ==
  /\ users = (Veteran.id :> Veteran) @@ (Rookie.id :> Rookie)
  /\ daily_quests = <<>>
  /\ guilds = <<>>
  /\ today = 1
  /\ last = [op |-> "start"]
  /\ served = 0
  /\ loop = Idle
  /\ inflight = <<>>

GuildNames == { "Sombras", "Cazadores" }

\* The id of every guild, and an id of no guild.
GuildIdInputs == { guilds[i].id : i \in DOMAIN guilds } \cup { Uuid("guild", 0) }

CreateGuild(u, name) ==
  /\ served < MaxRequests
  /\ LET r == create_guild(users[u], users, guilds, name, Uuid("guild", served + 1)) IN
     /\ users' = r.users
     /\ guilds' = r.guilds
     /\ last' = [op |-> "create_guild", user |-> u, name |-> name, response |-> r.response]
     /\ served' = Counted(r.response)
  /\ UNCHANGED <<daily_quests, today, loop, inflight>>

JoinGuild(u, guild_id) ==
  /\ served < MaxRequests
  /\ LET r == join_guild(users[u], users, guilds, guild_id) IN
     /\ users' = r.users
     /\ guilds' = r.guilds
     /\ last' = [op |-> "join_guild", user |-> u, guild_id |-> guild_id,
                 response |-> r.response]
     /\ served' = Counted(r.response)
  /\ UNCHANGED <<daily_quests, today, loop, inflight>>

LeaveGuild(u) ==
  /\ served < MaxRequests
  /\ LET r == leave_guild(users[u], users, guilds) IN
     /\ users' = r.users
     /\ guilds' = r.guilds
     /\ last' = [op |-> "leave_guild", user |-> u, response |-> r.response]
     /\ served' = Counted(r.response)
  /\ UNCHANGED <<daily_quests, today, loop, inflight>>

NextGuild ==
  \/ \E u \in UserIds : \E name \in GuildNames : CreateGuild(u, name)
  \/ \E u \in UserIds : \E g \in GuildIdInputs : JoinGuild(u, g)
  \/ \E u \in UserIds : LeaveGuild(u)
  \/ \E u \in UserIds : Complete(u, "mission_cazador_real")

SpecGuild == InitGuild /\ [][NextGuild]_vars

-----------------------------------------------------------------------------
(* Two guild requests overlap: every await of a handler is a step, and the *)
(* steps of the two requests interleave.                                   *)

\* The veteran after creating the guild Sombras.
Founder ==
  unlock_achievement([Veteran EXCEPT !.guild_id = Uuid("guild", 1)], "guild_create")

\* The guild of the founder is stored; the rookie has no guild.
InitGuildConc ==
  /\ users = (Founder.id :> Founder) @@ (Rookie.id :> Rookie)
  /\ guilds = << NewGuild(Uuid("guild", 1), "Sombras", Veteran) >>
  /\ daily_quests = <<>>
  /\ today = 1
  /\ last = [op |-> "start"]
  /\ served = 0
  /\ loop = Idle
  /\ inflight = <<>>

GuildRequest(op, guild_id, name) == [op |-> op, guild_id |-> guild_id, name |-> name]

\* The guild requests that overlap.
GuildRequests ==
  { GuildRequest("join", Uuid("guild", 1), None),
    GuildRequest("leave", None, None),
    GuildRequest("create", None, "Cazadores") }

\* get_current_user: the request's snapshot of the user is loaded.
GuildLoad(u, request) ==
  /\ Len(inflight) < 2
  /\ inflight' = Append(inflight, [user |-> u, request |-> request, snapshot |-> users[u],
                                   pc |-> "find", status |-> 0])
  /\ UNCHANGED <<users, daily_quests, guilds, today, last, served, loop>>

\* The request moves to pc, or ends with the status.
Goto(i, pc) == inflight' = [inflight EXCEPT ![i].pc = pc]

Ends(i, status) == inflight' = [inflight EXCEPT ![i].pc = "done", ![i].status = status]

\* The checks of a handler and its find_one.
GuildFind(i) ==
  LET e == inflight[i]
      user == e.snapshot
  IN /\ e.pc = "find"
     /\ IF e.request.op = "join"
          THEN IF user.guild_id # None THEN Ends(i, 400)
               ELSE IF GuildsWithId(guilds, e.request.guild_id) = <<>> THEN Ends(i, 404)
               ELSE Goto(i, "push")
        ELSE IF e.request.op = "create"
          THEN IF user.guild_id # None THEN Ends(i, 400)
               ELSE IF \E k \in DOMAIN guilds : guilds[k].name = e.request.name
                 THEN Ends(i, 400)
               ELSE Goto(i, "insert")
        ELSE IF user.guild_id = None THEN Ends(i, 400)
        ELSE LET guild == GuildsWithId(guilds, user.guild_id) IN
             IF guild # <<>> /\ guild[1].leader_id = user.id THEN Goto(i, "delete")
             ELSE Goto(i, "pull")
     /\ UNCHANGED <<users, daily_quests, guilds, today, last, served, loop>>

\* The write of a handler to db.guilds.
GuildWrite(i) ==
  LET e == inflight[i]
      user == e.snapshot
  IN /\ e.pc \in { "push", "insert", "delete", "pull" }
     /\ guilds' =
          IF e.pc = "push" THEN GuildPush(guilds, e.request.guild_id, user)
          ELSE IF e.pc = "insert"
            THEN Append(guilds, NewGuild(Uuid("guild", i + 1), e.request.name, user))
          ELSE IF e.pc = "delete" THEN GuildDelete(guilds, user.guild_id)
          ELSE GuildPull(guilds, user.guild_id, user)
     /\ Goto(i, IF e.pc = "push" THEN "set_joined"
                ELSE IF e.pc = "insert" THEN "set_created"
                ELSE IF e.pc = "delete" THEN "clear"
                ELSE "unset")
     /\ UNCHANGED <<users, daily_quests, today, last, served, loop>>

\* The write of a handler to db.users that follows.
UserWrite(i) ==
  LET e == inflight[i]
      user == e.snapshot
  IN /\ e.pc \in { "set_joined", "set_created", "clear", "unset" }
     /\ users' =
          IF e.pc = "set_joined" THEN SetGuild(users, user.id, e.request.guild_id)
          ELSE IF e.pc = "set_created" THEN SetGuild(users, user.id, Uuid("guild", i + 1))
          ELSE IF e.pc = "clear" THEN ClearGuild(users, user.guild_id)
          ELSE SetGuild(users, user.id, None)
     /\ IF e.pc \in { "set_joined", "set_created" } THEN Goto(i, "achievement")
        ELSE Ends(i, 200)
     /\ UNCHANGED <<daily_quests, guilds, today, last, served, loop>>

\* The achievement of a join or create.
GuildUnlock(i) ==
  LET e == inflight[i] IN
  /\ e.pc = "achievement"
  /\ users' = GuildAchievement(e.snapshot, users,
                               IF e.request.op = "join" THEN "guild_join" ELSE "guild_create")
  /\ Ends(i, 200)
  /\ UNCHANGED <<daily_quests, guilds, today, last, served, loop>>

NextGuildConc ==
  \/ \E u \in UserIds : \E r \in GuildRequests : GuildLoad(u, r)
  \/ \E i \in DOMAIN inflight : GuildFind(i)
  \/ \E i \in DOMAIN inflight : GuildWrite(i)
  \/ \E i \in DOMAIN inflight : UserWrite(i)
  \/ \E i \in DOMAIN inflight : GuildUnlock(i)

SpecGuildConc == InitGuildConc /\ [][NextGuildConc]_vars

-----------------------------------------------------------------------------
(* The shop: a new hunter earns gold in the first dungeon and the veteran   *)
(* spends it on items of every kind.                                        *)

InitShop ==
  /\ users \in { (Novice.id :> Novice), (Veteran.id :> Veteran) }
  /\ daily_quests = <<>>
  /\ guilds = <<>>
  /\ today = 1
  /\ last = [op |-> "start"]
  /\ served = 0
  /\ loop = Idle
  /\ inflight = <<>>

\* One item of each effect, and an id the shop does not sell.
ShopInputs == { "potion_exp_1", "streak_protect", "title_hunter", "stat_agi", "nada" }

NextShop ==
  \/ \E u \in UserIds : \E i \in ShopInputs : Buy(u, i)
  \/ \E u \in UserIds : Complete(u, "dungeon_prueba_novato")

SpecShop == InitShop /\ [][NextShop]_vars

-----------------------------------------------------------------------------
(* Stat upgrades with any integer of points: StatUpgrade.points is an int  *)
(* with no constraint.                                                     *)

InitUpgrade ==
  /\ users \in { (Novice.id :> Novice), (Veteran.id :> Veteran) }
  /\ daily_quests = <<>>
  /\ guilds = <<>>
  /\ today = 1
  /\ last = [op |-> "start"]
  /\ served = 0
  /\ loop = Idle
  /\ inflight = <<>>

\* A negative number of points, none, one, and more than the veteran has.
UpgradePointInputs == { -11, 0, 1, 60 }

UpgradeStatInputs == { "strength", "agility", "suerte" }

NextUpgrade ==
  \E u \in UserIds : \E s \in UpgradeStatInputs : \E p \in UpgradePointInputs : Upgrade(u, s, p)

SpecUpgrade == InitUpgrade /\ [][NextUpgrade]_vars

-----------------------------------------------------------------------------
(* Daily quests generated at several levels: the hunter fetches the daily  *)
(* quest of each day and gains levels in between.                          *)

InitFresh ==
  /\ users \in { (Novice.id :> Novice), (Veteran.id :> Veteran) }
  /\ daily_quests = <<>>
  /\ guilds = <<>>
  /\ today = 1
  /\ last = [op |-> "start"]
  /\ served = 0
  /\ loop = Idle
  /\ inflight = <<>>

\* Quests whose experience raises the level by one and by several.
FreshInputs == { "dungeon_mina_abandonada", "mission_despertar", "mission_ano_acero" }

NextFresh ==
  \/ \E u \in UserIds : GetDaily(u)
  \/ \E u \in UserIds : \E q \in FreshInputs : Complete(u, q)
  \/ NextDay

SpecFresh == InitFresh /\ [][NextFresh]_vars

-----------------------------------------------------------------------------
(* The progression engine on its own: the three pure functions are called  *)
(* with the levels and the templates the handlers pass them.               *)

InitEngine ==
  /\ users = <<>>
  /\ daily_quests = <<>>
  /\ guilds = <<>>
  /\ today = 1
  /\ last = [op |-> "start"]
  /\ served = 0
  /\ loop = Idle
  /\ inflight = <<>>

\* The levels of a call.
LevelInputs == 1..MaxLevel

\* The levels whose threshold the model's integers hold.
ExpLevelInputs == DOMAIN ExpNeededTable

CalculateRank(level) ==
  /\ last' = [op |-> "calculate_rank", level |-> level, result |-> calculate_rank(level)]
  /\ UNCHANGED <<users, daily_quests, guilds, today, served, loop, inflight>>

CalculateExpNeeded(level) ==
  /\ last' = [op |-> "calculate_exp_needed", level |-> level,
              result |-> calculate_exp_needed(level)]
  /\ UNCHANGED <<users, daily_quests, guilds, today, served, loop, inflight>>

\* get_training_reps for the template ex of BASE_DAILY_EXERCISES.
GetTrainingReps(level, ex) ==
  /\ last' = [op |-> "get_training_reps", level |-> level,
              base_reps |-> ex.base_reps, max_reps |-> ex.max_reps,
              result |-> get_training_reps(level, ex.base_reps, ex.max_reps)]
  /\ UNCHANGED <<users, daily_quests, guilds, today, served, loop, inflight>>

NextEngine ==
  \/ \E level \in LevelInputs : CalculateRank(level)
  \/ \E level \in ExpLevelInputs : CalculateExpNeeded(level)
  \/ \E level \in LevelInputs :
       \E i \in DOMAIN BASE_DAILY_EXERCISES : GetTrainingReps(level, BASE_DAILY_EXERCISES[i])

SpecEngine == InitEngine /\ [][NextEngine]_vars

-----------------------------------------------------------------------------
(* Two complete requests of one user overlap: each loads the user, reads   *)
(* the daily quest, and then runs the rest of the handler.                 *)

InitDailyConc ==
  /\ users \in { (Novice.id :> Novice), (Veteran.id :> Veteran) }
  /\ daily_quests = <<>>
  /\ guilds = <<>>
  /\ today = 1
  /\ last = [op |-> "start"]
  /\ served = 0
  /\ loop = Idle
  /\ inflight = <<>>

\* The ids of the overlapping complete requests of the user.
DailyConcInputs(u) == OwnQuests(u) \cup { "dungeon_prueba_novato" }

\* get_current_user: the request's snapshot of the user is loaded.
CompleteLoad(u, quest_id) ==
  /\ Len(inflight) < 2
  /\ inflight' = Append(inflight, [user |-> u, quest_id |-> quest_id, snapshot |-> users[u],
                                   pc |-> "find", found |-> <<>>,
                                   response |-> [status |-> 0]])
  /\ UNCHANGED <<users, daily_quests, guilds, today, last, served, loop>>

\* db.daily_quests.find_one({"id": quest_id, "user_id": user["id"]})
CompleteFind(i) ==
  LET e == inflight[i] IN
  /\ e.pc = "find"
  /\ inflight' =
       [inflight EXCEPT
          ![i].pc = "serve",
          ![i].found = SelectSeq(daily_quests,
                                 LAMBDA d : d.id = e.quest_id /\ d.user_id = e.snapshot.id)]
  /\ UNCHANGED <<users, daily_quests, guilds, today, last, served, loop>>

\* The handler runs on from the daily quest it read and the snapshot it
\* loaded, and writes.
CompleteServe(i) ==
  LET e == inflight[i]
      r == complete_quest(e.snapshot, users[e.user], e.found, e.quest_id, today)
  IN /\ e.pc = "serve"
     /\ users' = [users EXCEPT ![e.user] = r.doc]
     /\ daily_quests' =
          IF r.response.status = 200 /\ e.found # <<>>
            THEN MarkCompleted(daily_quests, e.quest_id)
          ELSE daily_quests
     /\ inflight' = [inflight EXCEPT ![i].pc = "done", ![i].response = r.response]
     /\ UNCHANGED <<guilds, today, last, served, loop>>

NextDailyConc ==
  \/ \E u \in UserIds : GetDaily(u)
  \/ \E u \in UserIds : \E q \in DailyConcInputs(u) : CompleteLoad(u, q)
  \/ \E i \in DOMAIN inflight : CompleteFind(i)
  \/ \E i \in DOMAIN inflight : CompleteServe(i)

SpecDailyConc == InitDailyConc /\ [][NextDailyConc]_vars

-----------------------------------------------------------------------------
(* A guild of new hunters: a level-1 hunter leads a guild, a second one    *)
(* joins, gains levels and leaves.                                         *)

\* The new hunter after creating the guild Sombras.
NoviceLeader ==
  unlock_achievement([Novice EXCEPT !.guild_id = Uuid("guild", MaxRequests + 1)], "guild_create")

InitGuildLevels ==
  /\ users = (NoviceLeader.id :> NoviceLeader) @@ (Rookie.id :> Rookie)
  /\ guilds = << NewGuild(Uuid("guild", MaxRequests + 1), "Sombras", Novice) >>
  /\ daily_quests = <<>>
  /\ today = 1
  /\ last = [op |-> "start"]
  /\ served = 0
  /\ loop = Idle
  /\ inflight = <<>>

NextGuildLevels ==
  \/ \E u \in UserIds : \E name \in GuildNames : CreateGuild(u, name)
  \/ \E u \in UserIds : \E g \in GuildIdInputs : JoinGuild(u, g)
  \/ \E u \in UserIds : LeaveGuild(u)
  \/ \E u \in UserIds : Complete(u, "mission_ano_acero")

SpecGuildLevels == InitGuildLevels /\ [][NextGuildLevels]_vars

-----------------------------------------------------------------------------
(* The properties.                                                         *)

\* C1: in every state reached through register, quest completions, quest
\* failures, purchases and stat upgrades, a user's experience is at least 0
\* and strictly below the experience its level requires.
C1_ExperienceBelowRequired ==
  \A u \in UserIds :
    /\ users[u].experience >= 0
    /\ users[u].experience < calculate_exp_needed(users[u].level)

\* The user document after the two overlapping requests are served one after
\* the other, first then second, from the documents the overlap started from.
Serial(first, second) ==
  LET a == Handle(inflight[first].request, last.doc, last.doc, last.dailies, today, first)
      b == Handle(inflight[second].request, a.doc, a.doc, a.dailies, today, second)
  IN b.doc

\* Both overlapping requests have written.
BothWritten == Len(inflight) = 2 /\ inflight[1].written /\ inflight[2].written

\* C2: when two state-changing requests of one user overlap, both loading the
\* user before either writes, the final user document is the one reached by
\* serving the two requests one after the other in some order.
C2_OverlapIsSerial ==
  BothWritten => users[last.user] \in { Serial(1, 2), Serial(2, 1) }

\* The stored daily quest with this id is completed.
CompletedDaily(quest_id) ==
  \E i \in DOMAIN daily_quests : daily_quests[i].id = quest_id /\ daily_quests[i].is_completed

\* A stored daily quest has this id.
IsDaily(quest_id) == \E i \in DOMAIN daily_quests : daily_quests[i].id = quest_id

\* This step serves a request of this kind with success.
Succeeds(op) == last'.op = op /\ served' = served + 1

\* C3: once a daily quest is completed, every later complete of its id is
\* answered with a validation error (400) and leaves the user document and the
\* stored quests unchanged.
C3_DailyOnlyOnce ==
  [][ (last'.op = "complete" /\ CompletedDaily(last'.quest_id))
        => /\ last'.response.status = 400
           /\ users' = users
           /\ daily_quests' = daily_quests ]_vars

\* Today's daily quest has been completed, then completed again and refused.
C3_Witness ==
  /\ last.op = "complete"
  /\ last.response.status = 400
  /\ \E i \in DOMAIN daily_quests :
        /\ daily_quests[i].id = last.quest_id
        /\ daily_quests[i].date = today
        /\ daily_quests[i].is_completed

\* The experience required from level a up to, not including, level b.
RECURSIVE SumRequired(_, _)
SumRequired(a, b) == IF a >= b THEN 0 ELSE calculate_exp_needed(a) + SumRequired(a + 1, b)

\* C4: when the loop has run for a user at level L with experience E and a
\* reward R, the user is at a level L' >= L with an experience E' such that
\* E + R = E' + the experience required by the levels L..L'-1 and
\* 0 <= E' < the experience L' requires, and has 3 * (L' - L) more stat points;
\* level 1 with 0 experience and a reward of 500 ends at level 3 with 80
\* experience and 6 more stat points.
C4_Cascade ==
  loop.pc = "done" =>
    LET u == users[loop.user] IN
    /\ u.level >= loop.level
    /\ loop.experience + loop.exp_reward = u.experience + SumRequired(loop.level, u.level)
    /\ 0 <= u.experience
    /\ u.experience < calculate_exp_needed(u.level)
    /\ u.stat_points = loop.stat_points + 3 * (u.level - loop.level)
    /\ (loop.level = 1 /\ loop.experience = 0 /\ loop.exp_reward = 500)
         => (u.level = 3 /\ u.experience = 80 /\ u.stat_points = loop.stat_points + 6)

\* The loop has taken a user at level 1 with 0 experience over two levels.
C4_Witness ==
  /\ loop.pc = "done"
  /\ loop.level = 1 /\ loop.experience = 0 /\ loop.exp_reward = 500
  /\ users[loop.user].level = 3

\* C5: the level-up loop, once entered, terminates, and when it has exited the
\* experience is below the experience the new level requires.
C5_LoopTerminates ==
  (loop.pc = "test") ~>
     (loop.pc = "done"
        /\ users[loop.user].experience < calculate_exp_needed(users[loop.user].level))

\* The loop has exited after more than one iteration.
C5_Witness ==
  /\ loop.pc = "done"
  /\ users[loop.user].level > loop.level + 1

\* rankFor of the specification: 1 -> E, 10 -> D, 25 -> C, 40 -> B, 60 -> A, 80 -> S.
rankFor(level) ==
  CASE level >= 80 -> "S"
    [] level >= 60 /\ level < 80 -> "A"
    [] level >= 40 /\ level < 60 -> "B"
    [] level >= 25 /\ level < 40 -> "C"
    [] level >= 10 /\ level < 25 -> "D"
    [] level < 10 -> "E"

\* C6: in every reachable state a user's rank is rankFor of its level, and a
\* step that changes the rank changes the level.
C6_RankMatchesLevel ==
  [][ \A u \in UserIds :
        /\ users[u].rank = rankFor(users[u].level)
        /\ users'[u].rank = rankFor(users'[u].level)
        /\ users'[u].rank # users[u].rank => users'[u].level # users[u].level ]_vars

\* A completion has taken a user across a rank boundary.
C6_Witness ==
  /\ last.op = "complete"
  /\ last.response.status = 200
  /\ last.response.level_up
  /\ users[last.user].level = 10
  /\ users[last.user].rank = "D"

\* C7: a successful daily completion sets last_quest_date to today and the
\* streak to the old streak + 1 if last_quest_date was yesterday, to the old
\* streak if it was today, and to 1 if it was unset or two or more days ago; a
\* successful completion of any other kind changes neither.
C7_StreakRule ==
  [][ \A u \in UserIds :
        (Succeeds("complete") /\ last'.user = u) =>
          IF IsDaily(last'.quest_id)
            THEN /\ users'[u].last_quest_date = today
                 /\ users'[u].streak =
                      CASE users[u].last_quest_date = today - 1 -> users[u].streak + 1
                        [] users[u].last_quest_date = today -> users[u].streak
                        [] OTHER -> 1
            ELSE /\ users'[u].streak = users[u].streak
                 /\ users'[u].last_quest_date = users[u].last_quest_date ]_vars

\* A daily quest of an earlier day has been completed after today's: the
\* completion found last_quest_date at today.
C7_Witness ==
  /\ last.op = "complete"
  /\ last.response.status = 200
  /\ \E i, j \in DOMAIN daily_quests :
        /\ daily_quests[i].id = last.quest_id
        /\ daily_quests[i].date < today
        /\ daily_quests[j].date = today
        /\ daily_quests[j].is_completed
  /\ users[last.user].streak >= 1

C9_FailPenalty ==
  [][ \A u \in UserIds :
        (Succeeds("fail") /\ last'.user = u) =>
          LET old == users[u]
              new == users'[u]
              n == Len(old.punishment_quests)
          IN /\ new.experience = old.experience - ((15 * old.experience) \div 100)
             /\ new.experience >= 0
             /\ new.level = old.level
             /\ new.rank = old.rank
             /\ new.gold = old.gold
             /\ new.quests_completed = old.quests_completed
             /\ new.training_start_time = NoDate
             /\ Len(new.punishment_quests) = n + 1
             /\ SubSeq(new.punishment_quests, 1, n) = old.punishment_quests
             /\ \E t \in DOMAIN PUNISHMENT_QUESTS :
                   /\ new.punishment_quests[n + 1].name = PUNISHMENT_QUESTS[t].name
                   /\ new.punishment_quests[n + 1].exercises = PUNISHMENT_QUESTS[t].exercises
                   /\ new.punishment_quests[n + 1].exp_reward = PUNISHMENT_QUESTS[t].exp ]_vars

\* A fail has cost experience and left a second pending punishment.
C9_Witness ==
  /\ last.op = "fail"
  /\ last.response.exp_lost > 0
  /\ Len(users[last.user].punishment_quests) = 2

\* No shadow id occurs twice in the sequence.
NoDuplicates(shadows) ==
  \A i, j \in DOMAIN shadows : shadows[i] = shadows[j] => i = j

\* The shadow of the boss with this id, none if there is no such boss.
ShadowOfBoss(quest_id) ==
  LET boss == Entries(WEEKLY_BOSSES, quest_id) IN
  IF boss = <<>> THEN None ELSE boss[1].shadow

\* C10: the owned shadows never hold a shadow id twice, and the completion of
\* a boss whose shadow is owned leaves their number and reports no shadow.
C10_ShadowsOnce ==
  [][ \A u \in UserIds :
        /\ NoDuplicates(users[u].shadows)
        /\ NoDuplicates(users'[u].shadows)
        /\ ( /\ Succeeds("complete")
             /\ last'.user = u
             /\ In(ShadowOfBoss(last'.quest_id), users[u].shadows) )
             => /\ Len(users'[u].shadows) = Len(users[u].shadows)
                /\ last'.response.shadow_earned = None ]_vars

\* A boss has been defeated again by the owner of its shadow, who also owns
\* a shadow granted by a mission.
C10_Witness ==
  /\ last.op = "complete"
  /\ last.response.status = 200
  /\ last.quest_id = "boss_igris"
  /\ last.response.shadow_earned = None
  /\ In("shadow_igris", users[last.user].shadows)
  /\ Len(users[last.user].shadows) = 2


\* The gold reward of an achievement of the catalog.
RewardOf(achievement_id) == Entries(ACHIEVEMENTS, achievement_id)[1].reward_gold

RECURSIVE SumRewards(_)
SumRewards(ids) == IF ids = <<>> THEN 0 ELSE RewardOf(Head(ids)) + SumRewards(Tail(ids))

\* The ids a step has added at the end of a list.
Added(old, new) == SubSeq(new, Len(old) + 1, Len(new))

\* The list has only grown at its end.
Extends(old, new) == Len(new) >= Len(old) /\ SubSeq(new, 1, Len(old)) = old

\* C11: a user's achievements never hold an id twice and only grow; a
\* successful complete or stat upgrade credits, besides the quest's own gold,
\* exactly the sum of reward_gold over the ids it adds, and the ids it reports
\* as unlocked are the added ones, none of which the user held; no other
\* request changes the achievements.
C11_AchievementsOnce ==
  [][ \A u \in UserIds :
        LET old == users[u]
            new == users'[u]
            added == Added(old.achievements, new.achievements)
        IN /\ NoDuplicates(old.achievements)
           /\ NoDuplicates(new.achievements)
           /\ Extends(old.achievements, new.achievements)
           /\ IF Succeeds("complete") /\ last'.user = u
                THEN /\ last'.response.achievements_unlocked = added
                     /\ new.gold = old.gold + last'.response.gold_gained + SumRewards(added)
              ELSE IF Succeeds("upgrade") /\ last'.user = u
                THEN /\ last'.response.achievements_unlocked = added
                     /\ new.gold = old.gold + SumRewards(added)
              ELSE added = <<>> ]_vars

\* A completion has unlocked three achievements for a user who held the
\* thousand-quests achievement and whose count of quests is far above it.
C11_Witness ==
  /\ last.op = "complete"
  /\ last.response.status = 200
  /\ Len(last.response.achievements_unlocked) = 3
  /\ In("quests_1000", users[last.user].achievements)
  /\ ~In("quests_1000", last.response.achievements_unlocked)
  /\ users[last.user].quests_completed > 1000

\* C12: after a successful completion of a daily quest that leaves the streak
\* at s, the user holds every streak achievement whose threshold is at most s.
C12_StreakMilestones ==
  (last.op = "complete" /\ last.response.status = 200 /\ IsDaily(last.quest_id)) =>
    \A i \in DOMAIN streak_achievements :
      streak_achievements[i].at <= users[last.user].streak
        => In(streak_achievements[i].id, users[last.user].achievements)

\* One of the four stats of the user is at this value or above.
SomeStatAt(u, value) == \E s \in StatNames : users[u].stats[s] >= value

\* C13: after a successful stat upgrade or purchase that leaves one of the
\* four stats at 50 or more the user holds stats_50, and at 100 or more
\* stats_100.
C13_StatMilestones ==
  (last.op \in {"upgrade", "buy"} /\ last.response.status = 200) =>
    /\ SomeStatAt(last.user, 50) => In("stats_50", users[last.user].achievements)
    /\ SomeStatAt(last.user, 100) => In("stats_100", users[last.user].achievements)

\* The thresholds of the counters, as the specification lists them.
QuestMilestones == {1, 10, 50, 100, 500, 1000}

LevelMilestones == {10, 25, 40, 50, 60, 80, 100}

RepsMilestones == {1000, 10000, 100000}

\* The achievement of a quest count: first_quest for the first quest.
QuestMilestoneId(n) == IF n = 1 THEN "first_quest" ELSE "quests_" \o ToString(n)

\* C14: after every successful complete the user holds the quest-count
\* achievement of every N <= quests_completed, level_N for every N <= level
\* and reps_N for every N <= total_reps.
C14_CountersInStep ==
  (last.op = "complete" /\ last.response.status = 200) =>
    LET u == users[last.user] IN
    /\ \A n \in QuestMilestones :
          u.quests_completed >= n => In(QuestMilestoneId(n), u.achievements)
    /\ \A n \in LevelMilestones :
          u.level >= n => In("level_" \o ToString(n), u.achievements)
    /\ \A n \in RepsMilestones :
          u.total_reps >= n => In("reps_" \o ToString(n), u.achievements)

\* The first completion of a user has taken it from level 1 to level 10 and
\* unlocked first_quest and level_10.
C14_Witness ==
  /\ last.op = "complete"
  /\ last.response.status = 200
  /\ users[last.user].quests_completed = 1
  /\ users[last.user].level = 10
  /\ In("first_quest", last.response.achievements_unlocked)
  /\ In("level_10", last.response.achievements_unlocked)

\* This step serves a complete of an id with this prefix for this user.
Completes(u, prefix) ==
  last'.op = "complete" /\ last'.user = u /\ startswith(last'.quest_id, prefix)

\* The step changes no stored document.
NothingStored == users' = users /\ daily_quests' = daily_quests /\ guilds' = guilds

\* C16: a complete of a dungeon_ id the catalog does not hold is answered
\* not-found (404) and one of a dungeon above the user's level with the
\* level-gate error (400), both leaving every document; a successful one adds
\* 1 to the counter of the dungeon's difficulty and leaves the other five.
C16_DungeonGate ==
  [][ \A u \in UserIds :
        Completes(u, "dungeon_") =>
          LET dungeon == Entries(SPECIAL_DUNGEONS, last'.quest_id) IN
          IF dungeon = <<>>
            THEN last'.response.status = 404 /\ NothingStored
          ELSE IF users[u].level < dungeon[1].min_level
            THEN last'.response.status = 400 /\ NothingStored
          ELSE /\ last'.response.status = 200
               /\ \A rank \in DOMAIN users[u].dungeons_completed :
                     users'[u].dungeons_completed[rank] =
                       users[u].dungeons_completed[rank]
                         + (IF rank = dungeon[1].difficulty THEN 1 ELSE 0) ]_vars

\* The veteran has completed a dungeon of rank D and is then refused one of
\* rank C, above its level.
C16_Witness ==
  /\ last.op = "complete"
  /\ last.quest_id = "dungeon_fortaleza_hielo"
  /\ last.response.status = 400
  /\ users[last.user].dungeons_completed.D = Veteran.dungeons_completed.D + 1
  /\ users[last.user].dungeons_completed.C = 0

\* C17: a successful complete of a mission adds its id to the completed
\* missions, which did not hold it; a complete of a mission the user has
\* completed, or of a mission_ id the catalog does not hold, fails and leaves
\* every document: no experience, gold or shadow is granted.
C17_MissionOnce ==
  [][ \A u \in UserIds :
        Completes(u, "mission_") =>
          LET quest_id == last'.quest_id IN
          /\ last'.response.status = 200 =>
                /\ ~In(quest_id, users[u].special_missions_completed)
                /\ In(quest_id, users'[u].special_missions_completed)
                /\ NoDuplicates(users'[u].special_missions_completed)
          /\ In(quest_id, users[u].special_missions_completed) =>
                last'.response.status = 400 /\ NothingStored
          /\ Entries(SPECIAL_MISSIONS, quest_id) = <<>> =>
                last'.response.status = 404 /\ NothingStored ]_vars

\* A mission that granted its shadow has been completed again and refused.
C17_Witness ==
  /\ last.op = "complete"
  /\ last.quest_id = "mission_cazador_real"
  /\ last.response.status = 400
  /\ In("mission_cazador_real", users[last.user].special_missions_completed)
  /\ In("shadow_goblin", users[last.user].shadows)

\* The list without its i-th entry.
Without(s, i) == SubSeq(s, 1, i - 1) \o SubSeq(s, i + 1, Len(s))

\* C18: a complete of a punishment_ id that is not pending is answered
\* not-found and leaves every document; a complete of a pending one removes
\* that entry and no other, reports the entry's experience and 0 gold, adds
\* that experience (through the level-up loop) and adds no gold but the
\* rewards of the achievements it unlocks; a fail adds one pending entry and
\* no other step changes the pending list, so that its length is the number
\* of fails minus the number of successful punishment completions.
C18_PunishmentPending ==
  [][ \A u \in UserIds :
        LET old == users[u]
            new == users'[u]
            pending == old.punishment_quests
        IN IF Completes(u, "punishment_")
             THEN LET hits == { i \in DOMAIN pending : pending[i].id = last'.quest_id } IN
                  IF hits = {}
                    THEN last'.response.status = 404 /\ NothingStored
                    ELSE /\ last'.response.status = 200
                         /\ \E i \in hits :
                               /\ new.punishment_quests = Without(pending, i)
                               /\ last'.response.exp_gained = pending[i].exp_reward
                               /\ new.experience + SumRequired(old.level, new.level)
                                    = old.experience + pending[i].exp_reward
                         /\ last'.response.gold_gained = 0
                         /\ new.gold = old.gold
                              + SumRewards(Added(old.achievements, new.achievements))
           ELSE IF Succeeds("fail") /\ last'.user = u
             THEN Len(new.punishment_quests) = Len(pending) + 1
           ELSE new.punishment_quests = pending ]_vars

\* A punishment has been completed while another stays pending.
C18_Witness ==
  /\ last.op = "complete"
  /\ last.response.status = 200
  /\ startswith(last.quest_id, "punishment_")
  /\ Len(users[last.user].punishment_quests) = 1
  /\ users[last.user].punishment_quests[1].id # last.quest_id

\* The prefixes complete_quest dispatches on.
QuestPrefixes == { "dungeon_", "boss_", "punishment_", "mission_" }

\* The user owns a stored daily quest with this id.
OwnsDaily(u, quest_id) ==
  \E i \in DOMAIN daily_quests :
    daily_quests[i].id = quest_id /\ daily_quests[i].user_id = u

\* C19: a complete with an id that is neither the id of a stored daily quest
\* of the caller nor prefixed dungeon_, boss_, punishment_ or mission_ is
\* answered not-found (404) and leaves every document, the id of another
\* user's daily quest included; and no complete changes a daily quest of a
\* user other than the caller.
C19_UnknownQuest ==
  [][ \A u \in UserIds :
        (last'.op = "complete" /\ last'.user = u) =>
          /\ ( /\ ~OwnsDaily(u, last'.quest_id)
               /\ \A prefix \in QuestPrefixes : ~startswith(last'.quest_id, prefix) )
               => last'.response.status = 404 /\ NothingStored
          /\ \A i \in DOMAIN daily_quests :
                daily_quests[i].user_id # u => daily_quests'[i] = daily_quests[i] ]_vars

\* A user that has its own daily quest has sent the id of the other user's
\* daily quest, which stays uncompleted.
C19_Witness ==
  /\ last.op = "complete"
  /\ last.response.status = 404
  /\ \E i, j \in DOMAIN daily_quests :
        /\ daily_quests[i].id = last.quest_id
        /\ daily_quests[i].user_id # last.user
        /\ ~daily_quests[i].is_completed
        /\ daily_quests[j].user_id = last.user

\* The stored daily quests of the user for the date.
DailiesOf(dailies, u, date) ==
  { i \in DOMAIN dailies : dailies[i].user_id = u /\ dailies[i].date = date }

\* C20: the stored daily quests hold at most one quest per user and date; a
\* fetch that finds today's quest of the user stores nothing and returns that
\* quest with its id, exercises, rewards and completion flag, whatever the
\* user's level is by then; a fetch that finds none stores exactly one.
C20_OneDailyPerDate ==
  [][ /\ \A i, j \in DOMAIN daily_quests' :
           ( /\ daily_quests'[i].user_id = daily_quests'[j].user_id
             /\ daily_quests'[i].date = daily_quests'[j].date ) => i = j
      /\ \A u \in UserIds :
           (last'.op = "daily" /\ last'.user = u) =>
             LET stored == DailiesOf(daily_quests, u, today)
                 quest == last'.response.quest
             IN IF stored # {}
                  THEN /\ daily_quests' = daily_quests
                       /\ \E i \in stored :
                             /\ quest.id = daily_quests[i].id
                             /\ quest.exercises = daily_quests[i].exercises
                             /\ quest.exp_reward = daily_quests[i].exp_reward
                             /\ quest.gold_reward = daily_quests[i].gold_reward
                             /\ quest.is_completed = daily_quests[i].is_completed
                  ELSE /\ Len(daily_quests') = Len(daily_quests) + 1
                       /\ SubSeq(daily_quests', 1, Len(daily_quests)) = daily_quests
                       /\ Cardinality(DailiesOf(daily_quests', u, today)) = 1 ]_vars

\* A fetch has returned the stored quest, generated at a lower level than the
\* user has by now.
C20_Witness ==
  /\ last.op = "daily"
  /\ ~last.response.created
  /\ last.response.quest.exp_reward < 25 + 2 * users[last.user].level
  /\ Cardinality(DailiesOf(daily_quests, last.user, today)) = 1

\* C21: a stored daily quest is never deleted and its completion flag, once
\* true, stays true; a fail changes no daily quest at all and a fetch changes
\* no stored one, so that a fail after the completion of today's quest
\* succeeds, assigns a punishment and leaves the quest completed.
C21_CompletedStays ==
  [][ /\ Len(daily_quests') >= Len(daily_quests)
      /\ \A i \in DOMAIN daily_quests :
            /\ daily_quests'[i].id = daily_quests[i].id
            /\ daily_quests[i].is_completed => daily_quests'[i].is_completed
            /\ last'.op = "daily" => daily_quests'[i] = daily_quests[i]
      /\ last'.op = "fail" =>
            /\ daily_quests' = daily_quests
            /\ last'.response.status = 200
            /\ Len(users'[last'.user].punishment_quests)
                 = Len(users[last'.user].punishment_quests) + 1 ]_vars

\* A fail has been served after the completion of today's daily quest, which
\* stays completed.
C21_Witness ==
  /\ last.op = "fail"
  /\ last.response.status = 200
  /\ Len(users[last.user].punishment_quests) >= 1
  /\ \E i \in DOMAIN daily_quests :
        /\ daily_quests[i].user_id = last.user
        /\ daily_quests[i].date = today
        /\ daily_quests[i].is_completed

\* The guilds whose member list holds the user.
GuildsOf(gs, u) == { i \in DOMAIN gs : In(u, gs[i].members) }

C23_GuildCreate ==
  [][ /\ \A i, j \in DOMAIN guilds' : guilds'[i].name = guilds'[j].name => i = j
      /\ \A u \in UserIds :
           (last'.op = "create_guild" /\ last'.user = u) =>
             IF users[u].guild_id # None
                  \/ \E i \in DOMAIN guilds : guilds[i].name = last'.name
               THEN /\ last'.response.status = 400
                    /\ guilds' = guilds
                    /\ users' = users
               ELSE /\ last'.response.status = 200
                    /\ Len(guilds') = Len(guilds) + 1
                    /\ SubSeq(guilds', 1, Len(guilds)) = guilds
                    /\ LET guild == guilds'[Len(guilds')] IN
                       /\ guild.name = last'.name
                       /\ guild.leader_id = u
                       /\ guild.members = << u >>
                       /\ guild.member_count = 1
                       /\ guild.total_level = users[u].level
                       /\ users'[u].guild_id = guild.id
                       /\ \A i \in DOMAIN guilds : guilds[i].id # guild.id ]_vars

\* A create with the name of the other hunter's guild has been refused.
C23_Witness ==
  /\ last.op = "create_guild"
  /\ last.response.status = 400
  /\ users[last.user].guild_id = None
  /\ \E i \in DOMAIN guilds : guilds[i].name = last.name /\ guilds[i].leader_id # last.user

\* C24: a leave by a user without a guild reference fails and leaves guilds
\* and users; a leave by the leader removes the guild and sets to none the
\* reference of every user that referenced it, and of no other; a leave by
\* another member removes that user from the guild's member list, takes 1
\* from member_count and the user's level from total_level, leaves the other
\* guilds, and clears that user's reference only.
C24_GuildLeave ==
  [][ \A u \in UserIds :
        (last'.op = "leave_guild" /\ last'.user = u) =>
          LET ref == users[u].guild_id
              hit == { i \in DOMAIN guilds : guilds[i].id = ref }
          IN IF ref = None
               THEN last'.response.status = 400 /\ NothingStored
             ELSE IF \E i \in hit : guilds[i].leader_id = u
               THEN /\ last'.response.status = 200
                    /\ \E i \in hit : guilds' = Without(guilds, i)
                    /\ \A v \in UserIds :
                          users'[v] = IF users[v].guild_id = ref
                                        THEN [users[v] EXCEPT !.guild_id = None]
                                        ELSE users[v]
               ELSE /\ last'.response.status = 200
                    /\ Len(guilds') = Len(guilds)
                    /\ \A i \in DOMAIN guilds :
                          guilds'[i] =
                            IF i \in hit
                              THEN [guilds[i] EXCEPT
                                      !.members = SelectSeq(@, LAMBDA m : m # u),
                                      !.member_count = @ - 1,
                                      !.total_level = @ - users[u].level]
                              ELSE guilds[i]
                    /\ \A v \in UserIds :
                          users'[v] = IF v = u THEN [users[v] EXCEPT !.guild_id = None]
                                      ELSE users[v] ]_vars

\* The leader has left a guild the other hunter had joined: the guild is
\* gone and neither has a reference.
C24_Witness ==
  /\ last.op = "leave_guild"
  /\ last.response.status = 200
  /\ guilds = <<>>
  /\ \E v \in UserIds :
        /\ v # last.user
        /\ In("guild_join", users[v].achievements)
        /\ ~In("guild_create", users[v].achievements)
        /\ users[v].guild_id = None
  /\ In("guild_create", users[last.user].achievements)

RECURSIVE SumLevels(_, _)
\* The sum of the levels of the members.
SumLevels(us, members) ==
  IF members = <<>> THEN 0 ELSE us[Head(members)].level + SumLevels(us, Tail(members))

\* Every guild's total_level is the sum of its members' levels.
TotalLevelExact(us, gs) ==
  \A i \in DOMAIN gs : gs[i].total_level = SumLevels(us, gs[i].members)

\* C25: from a state where every guild's total_level is the sum of the
\* levels of its members, a step that changes the level of no member of a
\* guild leads to such a state: as long as no member's level changes, the
\* total_level is that sum after every create, join and leave.
C25_TotalLevel ==
  [][ ( /\ TotalLevelExact(users, guilds)
        /\ \A u \in UserIds : GuildsOf(guilds, u) # {} => users'[u].level = users[u].level )
        => TotalLevelExact(users', guilds') ]_vars

\* A guild lists two hunters of different levels and holds their sum.
C25_Witness ==
  \E i \in DOMAIN guilds :
    /\ Len(guilds[i].members) = 2
    /\ users[guilds[i].members[1]].level # users[guilds[i].members[2]].level
    /\ guilds[i].total_level = SumLevels(users, guilds[i].members)
    /\ last.op = "join_guild"

\* No request is under way.
Quiet == \A i \in DOMAIN inflight : inflight[i].pc = "done"

\* C26: when the overlapping guild requests have ended, no user's guild
\* reference names a guild that does not exist, and every member a guild
\* lists references that guild.
C26_NoOrphans ==
  Quiet =>
    /\ \A u \in UserIds :
          users[u].guild_id # None => GuildsWithId(guilds, users[u].guild_id) # <<>>
    /\ \A i \in DOMAIN guilds :
          \A k \in DOMAIN guilds[i].members :
            users[guilds[i].members[k]].guild_id = guilds[i].id

\* The one effect of an item on the document: an experience grant, one more
\* streak shield, a new title, or 3 more of one stat.
ItemEffect(doc, item) ==
  IF "exp" \in item.effect.keys THEN [doc EXCEPT !.experience = @ + item.effect.exp]
  ELSE IF "streak_shield" \in item.effect.keys THEN [doc EXCEPT !.streak_shields = @ + 1]
  ELSE IF "title" \in item.effect.keys THEN [doc EXCEPT !.title = item.effect.title]
  ELSE [doc EXCEPT !.stats[item.effect.stat] = @ + 3]

\* C27: a buy of an item the shop does not sell, or of one that costs more
\* than the user's gold, fails and leaves every document; any other buy
\* succeeds, takes exactly the price from the gold and applies exactly the one
\* effect of the item; and no user's gold is ever negative.
C27_ShopBuy ==
  /\ [](\A u \in UserIds : users[u].gold >= 0)
  /\ [][ last'.op = "buy" =>
           LET u == last'.user
               item == Entries(SHOP_ITEMS, last'.item_id)
           IN IF item = <<>> \/ users[u].gold < item[1].price
                THEN last'.response.status # 200 /\ NothingStored
              ELSE /\ last'.response.status = 200
                   /\ users' = [users EXCEPT
                                  ![u] = ItemEffect([@ EXCEPT !.gold = @ - item[1].price],
                                                    item[1])]
                   /\ daily_quests' = daily_quests
                   /\ guilds' = guilds ]_vars

\* The veteran holds a bought streak shield and has just bought a title.
C27_Witness ==
  /\ last.op = "buy"
  /\ last.item_id = "title_hunter"
  /\ last.response.status = 200
  /\ users[last.user].title = "Cazador Elite"
  /\ users[last.user].streak_shields = 1

\* C28: every upgrade-stat request either fails and leaves the user, or moves
\* its points from the unallocated pool to the named stat, never raising the
\* pool nor lowering a stat; and the four stats and the pool are never
\* negative.
C28_UpgradeMoves ==
  /\ [](\A u \in UserIds :
          /\ users[u].stat_points >= 0
          /\ \A s \in StatNames : users[u].stats[s] >= 0)
  /\ [][ last'.op = "upgrade" =>
           LET u == last'.user IN
           IF last'.response.status # 200 THEN users' = users
           ELSE /\ last'.stat_name \in StatNames
                /\ users'[u].stats =
                     [users[u].stats EXCEPT ![last'.stat_name] = @ + last'.points]
                /\ users'[u].stat_points = users[u].stat_points - last'.points
                /\ users'[u].stat_points <= users[u].stat_points
                /\ \A s \in StatNames : users'[u].stats[s] >= users[u].stats[s] ]_vars

\* C29: the best streak of a user is never below the streak and never
\* decreases: a successful daily completion leaves it at the greater of the
\* new streak and the best streak before, and a fail leaves it as it was.
C29_BestStreak ==
  /\ [](\A u \in UserIds : users[u].best_streak >= users[u].streak)
  /\ [][ \A u \in UserIds :
           /\ users'[u].best_streak >= users[u].best_streak
           /\ (last'.op = "complete" /\ last'.user = u /\ served' = served + 1
                 /\ IsDaily(last'.quest_id))
                => users'[u].best_streak = Max(users'[u].streak, users[u].best_streak)
           /\ (last'.op = "fail" /\ last'.user = u)
                => users'[u].best_streak = users[u].best_streak ]_vars

\* The veteran's streak of two days was reset by a fail, and the daily quest
\* completed after it starts a streak of one day under a best streak of two.
C29_Witness ==
  /\ last.op = "complete"
  /\ last.response.status = 200
  /\ IsDaily(last.quest_id)
  /\ users[last.user].streak = 1
  /\ users[last.user].best_streak = 2
  /\ users[last.user].punishment_quests # <<>>

\* The target of an exercise as the specification gives it:
\* floor(base + (max - base) * min(1, (level - 1) / 49)).
trainingIntensity(level, base, max) ==
  IF level - 1 >= 49 THEN max ELSE base + ((max - base) * (level - 1)) \div 49

\* C30: the daily quest generated for a user of level L rewards 25 + 2 * L
\* experience and 10 + L gold, is not completed, and has one exercise for each
\* of the four templates, in their order, with the target
\* trainingIntensity(L, base, max) of its template: 10 to 100 repetitions,
\* 1 to 10 km.
C30_FreshDaily ==
  [][ (last'.op = "daily" /\ last'.response.created) =>
        LET L == users[last'.user].level
            quest == daily_quests'[Len(daily_quests')]
        IN /\ Len(daily_quests') = Len(daily_quests) + 1
           /\ quest.user_id = last'.user
           /\ quest.exp_reward = 25 + 2 * L
           /\ quest.gold_reward = 10 + L
           /\ ~quest.is_completed
           /\ Len(quest.exercises) = Len(BASE_DAILY_EXERCISES)
           /\ \A i \in DOMAIN BASE_DAILY_EXERCISES :
                LET ex == BASE_DAILY_EXERCISES[i] IN
                /\ quest.exercises[i].name = ex.name
                /\ quest.exercises[i].unit = ex.unit
                /\ quest.exercises[i].reps = trainingIntensity(L, ex.base_reps, ex.max_reps)
                /\ quest.exercises[i].reps \in
                     (IF ex.unit = "km" THEN 1..10 ELSE 10..100) ]_vars

\* A hunter of level 10 has just been given a new daily quest: 26
\* repetitions and 2 km for 45 experience.
C30_Witness ==
  /\ last.op = "daily"
  /\ last.response.created
  /\ users[last.user].level = 10
  /\ daily_quests[Len(daily_quests)].exp_reward = 45
  /\ daily_quests[Len(daily_quests)].exercises[1].reps = 26
  /\ daily_quests[Len(daily_quests)].exercises[4].reps = 2

\* The place of a rank in the order E < D < C < B < A < S.
RankOrder(rank) ==
  CASE rank = "E" -> 1 [] rank = "D" -> 2 [] rank = "C" -> 3
    [] rank = "B" -> 4 [] rank = "A" -> 5 [] rank = "S" -> 6

\* C31: the rank of every level from 1 on is one of the six ranks, is E for
\* 1..9, D for 10..24, C for 25..39, B for 40..59, A for 60..79 and S from 80
\* on, and is not below the rank of any lower level.
C31_RankTable ==
  last.op = "calculate_rank" =>
    LET level == last.level
        rank == last.result
    IN /\ rank \in {"E", "D", "C", "B", "A", "S"}
       /\ rank = rankFor(level)
       /\ level \in 1..9 <=> rank = "E"
       /\ level \in 10..24 <=> rank = "D"
       /\ level \in 25..39 <=> rank = "C"
       /\ level \in 40..59 <=> rank = "B"
       /\ level \in 60..79 <=> rank = "A"
       /\ level >= 80 <=> rank = "S"
       /\ \A lower \in 1..level : RankOrder(calculate_rank(lower)) <= RankOrder(rank)

\* The rank of level 80 has been computed.
C31_Witness ==
  /\ last.op = "calculate_rank"
  /\ last.level = 80
  /\ last.result = "S"

\* A natural number as its digits in base 10^6, the most significant first,
\* times a factor below 1000.
RECURSIVE TimesDigits(_, _, _)
TimesDigits(digits, factor, carry) ==
  IF digits = <<>> THEN (IF carry = 0 THEN <<>> ELSE <<carry>>)
  ELSE LET product == digits[Len(digits)] * factor + carry IN
       TimesDigits(SubSeq(digits, 1, Len(digits) - 1), factor, product \div 1000000)
         \o <<product % 1000000>>

\* The digits of the number divided by a divisor below 1000, rounded down.
RECURSIVE DividedDigits(_, _, _)
DividedDigits(digits, divisor, remainder) ==
  IF digits = <<>> THEN <<>>
  ELSE LET current == remainder * 1000000 + Head(digits) IN
       <<current \div divisor>> \o DividedDigits(Tail(digits), divisor, current % divisor)

\* The digits of 150 * 9^n: three factors of 9 at a time while n allows.
RECURSIVE TimesNines(_)
TimesNines(n) ==
  IF n = 0 THEN <<150>>
  ELSE IF n >= 3 THEN TimesDigits(TimesNines(n - 3), 9 * 9 * 9, 0)
  ELSE TimesDigits(TimesNines(n - 1), 9, 0)

\* The digits of floor(150 * 9^n / 5^m): three factors of 5 at a time.
RECURSIVE OverFives(_, _)
OverFives(n, m) ==
  IF m = 0 THEN TimesNines(n)
  ELSE IF m >= 3 THEN DividedDigits(OverFives(n, m - 3), 5 * 5 * 5, 0)
  ELSE DividedDigits(OverFives(n, m - 1), 5, 0)

\* The number of the digits.
RECURSIVE DigitsValue(_, _)
DigitsValue(digits, value) ==
  IF digits = <<>> THEN value
  ELSE DigitsValue(Tail(digits), value * 1000000 + Head(digits))

\* experienceRequired of the specification: floor(150 * 1.8^(level - 1)), in
\* exact arithmetic.
experienceRequired(level) == DigitsValue(OverFives(level - 1, level - 1), 0)

Listed(user) ==
  Range(get_special_quests(user)) \cup Range(get_weekly_boss(user))
    \cup { m.id : m \in Range(get_special_missions(user)) }

\* C34: a complete of a dungeon, a boss or a special mission succeeds only
\* when the listings show the entry to the user, that is when the user's level
\* is not below the entry's min_level.
C34_LevelGate ==
  [][ \A u \in UserIds :
        ((Completes(u, "dungeon_") \/ Completes(u, "boss_") \/ Completes(u, "mission_"))
           /\ last'.response.status = 200)
          => last'.quest_id \in Listed(users[u]) ]_vars

\* C35: a complete of a special mission succeeds only when the listing of the
\* special missions reports can_complete for that mission and user.
C35_MissionRequirement ==
  [][ \A u \in UserIds :
        (Completes(u, "mission_") /\ last'.response.status = 200)
          => \E m \in Range(get_special_missions(users[u])) :
               m.id = last'.quest_id /\ m.can_complete ]_vars

\* Two completes of the same daily quest have both read it uncompleted and
\* have both ended.
BothReadUncompleted ==
  /\ Len(inflight) = 2
  /\ \A i \in {1, 2} :
       /\ inflight[i].pc = "done"
       /\ inflight[i].found # <<>>
       /\ ~inflight[i].found[1].is_completed
  /\ inflight[1].quest_id = inflight[2].quest_id

\* C36: when two completes of the same uncompleted daily quest overlap, both
\* reading the quest before either marks it, at most one of them succeeds and
\* the user is left as by one completion: the experience, the gold, the count
\* of quests and the gold of the achievements are granted once.
C36_DailyOnce ==
  BothReadUncompleted =>
    LET start == inflight[1].snapshot
        once == complete_quest(start, start, inflight[1].found, inflight[1].quest_id, today)
    IN /\ ~(inflight[1].response.status = 200 /\ inflight[2].response.status = 200)
       /\ users[inflight[1].user] = once.doc

\* C37: a user is rewarded for at most one daily quest a date: no complete of
\* a daily quest succeeds when the user has already completed a daily quest
\* with success on the same date, whatever date the quest was generated for.
C37_OncePerDate ==
  [][ \A u \in UserIds :
        (last'.op = "complete" /\ last'.user = u /\ last'.response.status = 200
           /\ IsDaily(last'.quest_id))
          => users[u].last_quest_date # today ]_vars

\* C38: no request lowers a user's level, count of completed quests or total
\* of repetitions, and none removes a shadow, an achievement, a defeated boss
\* or a completed mission: each of the four lists only grows.
C38_OnlyGrows ==
  [][ \A u \in UserIds :
        /\ users'[u].level >= users[u].level
        /\ users'[u].quests_completed >= users[u].quests_completed
        /\ users'[u].total_reps >= users[u].total_reps
        /\ Extends(users[u].shadows, users'[u].shadows)
        /\ Extends(users[u].achievements, users'[u].achievements)
        /\ Extends(users[u].bosses_defeated, users'[u].bosses_defeated)
        /\ Extends(users[u].special_missions_completed,
                   users'[u].special_missions_completed) ]_vars

\* A fail has taken experience from the veteran, who keeps the level, the
\* defeated boss and its shadow.
C38_Witness ==
  /\ last.op = "fail"
  /\ last.response.status = 200
  /\ last.response.exp_lost > 0
  /\ users[last.user].level >= 20
  /\ In("boss_igris", users[last.user].bosses_defeated)
  /\ In("shadow_igris", users[last.user].shadows)

NoLevelGained == \A u \in UserIds : users[u].level = Novice.level

StatTotal(doc) ==
  doc.stats.strength + doc.stats.endurance + doc.stats.agility + doc.stats.vitality
    + doc.stat_points

\* The stat-boost items user u has bought in the step: 1 when the step is a
\* successful buy by u of an item of type stat_boost, else 0.
StatBoostsBought(u) ==
  IF /\ last'.op = "buy"
     /\ last'.user = u
     /\ last'.response.status = 200
     /\ \E i \in DOMAIN SHOP_ITEMS :
          SHOP_ITEMS[i].id = last'.item_id /\ SHOP_ITEMS[i].type = "stat_boost"
    THEN 1 ELSE 0

\* C40: stat points are conserved.  The sum of the four stats and stat_points
\* of a user equals 40 + 3 * (level - 1) + 3 * (stat-boost items bought): it is
\* 40 + 3 * (level - 1) for every user before the first request and 40 at
\* level 1 for a user register has just stored, and every step changes it by
\* 3 for each level gained and 3 for each stat-boost item bought, so an
\* upgrade of a stat leaves it.
C40_StatPointsConserved ==
  /\ \A u \in UserIds : StatTotal(users[u]) = 40 + 3 * (users[u].level - 1)
  /\ [][ \A u \in DOMAIN users' :
           IF u \in UserIds
             THEN StatTotal(users'[u]) - StatTotal(users[u])
                    = 3 * (users'[u].level - users[u].level) + 3 * StatBoostsBought(u)
             ELSE StatTotal(users'[u]) = 40 /\ users'[u].level = 1 ]_vars
=============================================================================
